---- MODULE Spec2Model ----
(***************************************************************************)
(* Fragments backend: the folder hierarchy, snippet and tag store and the  *)
(* request handlers in front of it.  The store is the relational schema of *)
(* backend/api/v1/database/schema.sql; every handler is one action that    *)
(* runs its transaction to commit or rollback.                             *)
(*                                                                         *)
(* Strings are sequences of one-character strings, so that TrimSpace and   *)
(* ToLower are computed and not assumed.  Columns that no handler branches *)
(* on (description, content, language, is_favorite, timestamps) are left   *)
(* out of the rows.                                                        *)
(***************************************************************************)
EXTENDS Integers, Sequences, FiniteSets, TLC

\* ------------------------------------------------------------------ bounds
MaxFolders == 3
MaxFiledFolders == 2
MaxSnippets == 1
MaxTags == 2
MaxTagList == 2
DeepChain == 50
MaxDeepExtra == 3
MaxIssueTime == 2
ClockWindow == 3
MaxAccounts == 2
MaxPad == 12
MaxRegistrations == 3
MaxNormList == 2

\* ------------------------------------------------------- program constants
MaxDepth == 50
MaxFolderNameLength == 100
MaxTitleLength == 200
MaxTagLength == 50
MaxTagsPerSnippet == 20

\* SQL NULL / a nil pointer of the request body
NULL == 0 - 1

\* the two accounts that hold valid tokens
Users == {1, 2}

\* ------------------------------------------------------------------ strings
\* strings.TrimSpace
RECURSIVE TrimLeft(_)
TrimLeft(s) ==
    IF s = <<>> THEN <<>>
    ELSE IF Head(s) = " " THEN TrimLeft(Tail(s)) ELSE s

RECURSIVE TrimRight(_)
TrimRight(s) ==
    IF s = <<>> THEN <<>>
    ELSE IF s[Len(s)] = " " THEN TrimRight(SubSeq(s, 1, Len(s) - 1)) ELSE s

TrimSpace(s) == TrimRight(TrimLeft(s))

\* strings.ToLower on the letters the model uses
LowerChar(c) ==
    CASE c = "G" -> "g"
      [] c = "O" -> "o"
      [] c = "A" -> "a"
      [] OTHER -> c

ToLower(s) == [i \in 1..Len(s) |-> LowerChar(s[i])]

Letters == {"a", "A", "g", "G", "o", "O", "p", "y", "t", "u"}

\* the character class of validateFolder: letters, digits, '_', '-', ' ', '.'
FolderNameChars == Letters \cup {"_", "-", " ", "."}

\* the character class of the tag check: letters, digits, '_', '-', ' '
TagChars == Letters \cup {"_", "-", " "}

\* ------------------------------------------------------------------- errors
NoErr == "nil"

ErrNoFolderMsg == "folder with ID does not exist: folder does not exist"
ErrNoSnippetMsg == "snippet with ID does not exist: snippet does not exist"
ErrHasChildrenMsg == "folder has child folders: folder has child folders"
ErrParentMissingMsg == "parent folder does not exist"
ErrParentForeignMsg == "parent folder does not belong to user"
ErrOwnParentMsg == "folder cannot be its own parent"
ErrDuplicateMsg == "folder name already exists in this location"
ErrDepthMsg == "circular reference detected: maximum folder depth exceeded"
ErrCircularMsg == "circular reference detected: circular reference detected"
ErrCircularSelfMsg == "circular reference detected: folder cannot be its own parent"
ErrDbMsg == "database error occurred: statement failed"
ErrBeginMsg == "failed to begin transaction: statement failed"
ErrValidateParentMsg == "failed to validate parent folder: statement failed"
ErrWalkMsg == "circular reference detected: failed to check parent folder: statement failed"
ErrNameCheckMsg == "failed to check for duplicate folder name: statement failed"
ErrInsertFolderMsg == "failed to insert folder: statement failed"
ErrCommitMsg == "failed to commit transaction: statement failed"
ErrInsertSnippetMsg == "failed to insert snippet: statement failed"
ErrUpdateSnippetMsg == "failed to update snippet: statement failed"
ErrSnippetTagsMsg == "failed to insert snippet tags: statement failed"
ErrUpdateTagsMsg == "failed to update snippet tags: statement failed"
ErrCheckSnippetMsg == "failed to check snippet existence: statement failed"
ErrDeleteSnippetMsg == "failed to delete snippet: statement failed"
ErrUniqueFolderMsg == "failed to insert folder: ERROR: duplicate key value violates unique constraint (SQLSTATE 23505)"
ErrUniqueUserMsg == "ERROR: duplicate key value violates unique constraint users_username_key (SQLSTATE 23505)"
ErrCommitUpdateMsg == "failed to commit update: statement failed"
ErrRetrieveTagsMsg == "failed to retrieve updated tags: failed to query snippet tags: statement failed"

\* strings.Contains(err.Error(), sub) for the substrings the handlers test
Contains(msg, sub) ==
    CASE sub = "already exists" -> msg = ErrDuplicateMsg
      [] sub = "parent folder" ->
            msg \in {ErrParentMissingMsg, ErrParentForeignMsg, ErrValidateParentMsg, ErrWalkMsg}
      [] sub = "circular reference" ->
            msg \in {ErrDepthMsg, ErrCircularMsg, ErrCircularSelfMsg, ErrWalkMsg}
      [] sub = "duplicate key value violates unique constraint" ->
            msg \in {ErrUniqueFolderMsg, ErrUniqueUserMsg}
      [] OTHER -> FALSE

\* errors.Is(err, sentinel)
ErrorsIs(msg, sentinel) ==
    CASE sentinel = "ErrNoFolderError" -> msg = ErrNoFolderMsg
      [] sentinel = "ErrNoSnippetError" -> msg = ErrNoSnippetMsg
      [] sentinel = "ErrFolderHasChildren" -> msg = ErrHasChildrenMsg
      [] sentinel = "ErrDatabaseError" -> msg = ErrDbMsg
      [] OTHER -> FALSE

\* -------------------------------------------------------------------- state
VARIABLES folders, snippets, tags, snippet_tags,
          nextFolderID, nextSnippetID, nextTagID, last, inflight,
          users, nextUserID, tokens, now

\* the accounts, the tokens issued so far and the wall clock
authVars == <<users, nextUserID, tokens, now>>

\* the folder, snippet and tag tables
storeVars == <<folders, snippets, tags, snippet_tags,
               nextFolderID, nextSnippetID, nextTagID>>

vars == <<folders, snippets, tags, snippet_tags,
          nextFolderID, nextSnippetID, nextTagID, last, inflight,
          users, nextUserID, tokens, now>>

\* the store as one value, as a transaction sees it
DB == [folders |-> folders, snippets |-> snippets, tags |-> tags,
       snippet_tags |-> snippet_tags, nextFolderID |-> nextFolderID,
       nextSnippetID |-> nextSnippetID, nextTagID |-> nextTagID]

EmptyTable == [x \in {} |-> 0]

Remove(f, k) == [x \in DOMAIN f \ {k} |-> f[x]]

NoRequest == [op |-> "none", caller |-> 0, id |-> 0, fail |-> 0, status |-> 0, body |-> "none"]

Init ==
    /\ folders = EmptyTable
    /\ snippets = EmptyTable
    /\ tags = EmptyTable
    /\ snippet_tags = {}
    /\ nextFolderID = 1
    /\ nextSnippetID = 1
    /\ nextTagID = 1
    /\ last = NoRequest
    /\ inflight = EmptyTable
    /\ users = EmptyTable
    /\ nextUserID = 1
    /\ tokens = {}
    /\ now = 0

\* ------------------------------------------------------ folders: the store
\* a store without the transaction: what the statements wrote stays
RollbackKeepsWrites(d, tx) == tx

\* an error ends the transaction: the deferred tx.Rollback discards tx
Rollback(d, tx) == d

\* INSERT INTO folders ... RETURNING id
SqlInsertFolder(d, userID, name, parentID) ==
    [d EXCEPT !.folders = d.folders @@ (d.nextFolderID :>
                  [user_id |-> userID, name |-> name, parent_id |-> parentID]),
              !.nextFolderID = d.nextFolderID + 1]

\* DELETE FROM folders WHERE id = $1, with the schema's ON DELETE SET NULL
\* on folders.parent_id and snippets.folder_id
SqlDeleteFolder(d, folderID) ==
    [d EXCEPT !.folders = [f \in DOMAIN d.folders \ {folderID} |->
                  IF d.folders[f].parent_id = folderID
                  THEN [d.folders[f] EXCEPT !.parent_id = NULL]
                  ELSE d.folders[f]],
              !.snippets = [s \in DOMAIN d.snippets |->
                  IF d.snippets[s].folder_id = folderID
                  THEN [d.snippets[s] EXCEPT !.folder_id = NULL]
                  ELSE d.snippets[s]]]

\* UPDATE snippets SET folder_id = NULL WHERE folder_id = $1
SqlMoveSnippetsToRoot(d, folderID) ==
    [d EXCEPT !.snippets = [s \in DOMAIN d.snippets |->
                  IF d.snippets[s].folder_id = folderID
                  THEN [d.snippets[s] EXCEPT !.folder_id = NULL]
                  ELSE d.snippets[s]]]

\* the name check written with "parent_id = $3" for a NULL parent as well,
\* which SQL never finds true
NameCountNullBlind(d, userID, name, parentID, exceptID) ==
    IF parentID = NULL THEN 0
    ELSE Cardinality({f \in DOMAIN d.folders :
                    /\ d.folders[f].user_id = userID
                    /\ d.folders[f].name = name
                    /\ d.folders[f].parent_id = parentID
                    /\ f # exceptID})

\* SELECT COUNT(*) FROM folders WHERE user_id, name, parent_id [AND id != $4]
NameCount(d, userID, name, parentID, exceptID) ==
    Cardinality({f \in DOMAIN d.folders :
                    /\ d.folders[f].user_id = userID
                    /\ d.folders[f].name = name
                    /\ d.folders[f].parent_id = parentID
                    /\ f # exceptID})

\* one pass through the body of checkCircularReference: the value it
\* returns, or "recurse" where it calls itself on the parent's parent
CircularReferenceStep(d, userID, parentID, depth) ==
    IF depth > MaxDepth THEN "maximum folder depth exceeded"
    ELSE IF parentID \notin DOMAIN d.folders \/ d.folders[parentID].user_id # userID
         THEN NoErr
    ELSE IF d.folders[parentID].parent_id = NULL THEN NoErr
    ELSE "recurse"

RECURSIVE checkCircularReference(_, _, _, _)
checkCircularReference(d, userID, parentID, depth) ==
    IF CircularReferenceStep(d, userID, parentID, depth) = "recurse"
    THEN checkCircularReference(d, userID, d.folders[parentID].parent_id, depth + 1)
    ELSE CircularReferenceStep(d, userID, parentID, depth)

\* a pass whose depth guard lets one more call through
CircularReferenceForUpdateStepLate(d, userID, folderID, newParentID, depth) ==
    IF depth > MaxDepth + 1 THEN "maximum folder depth exceeded"
    ELSE IF newParentID = folderID THEN "folder cannot be its own parent"
    ELSE IF newParentID \notin DOMAIN d.folders \/ d.folders[newParentID].user_id # userID
         THEN NoErr
    ELSE IF d.folders[newParentID].parent_id = NULL THEN NoErr
    ELSE IF d.folders[newParentID].parent_id = folderID THEN "circular reference detected"
    ELSE "recurse"

\* one pass through the body of checkCircularReferenceForUpdate: the value
\* it returns, or "recurse" where it calls itself on the parent's parent
CircularReferenceForUpdateStep(d, userID, folderID, newParentID, depth) ==
    IF depth > MaxDepth THEN "maximum folder depth exceeded"
    ELSE IF newParentID = folderID THEN "folder cannot be its own parent"
    ELSE IF newParentID \notin DOMAIN d.folders \/ d.folders[newParentID].user_id # userID
         THEN NoErr
    ELSE IF d.folders[newParentID].parent_id = NULL THEN NoErr
    ELSE IF d.folders[newParentID].parent_id = folderID THEN "circular reference detected"
    ELSE "recurse"

\* the update check without the walk up the parent chain
checkCircularReferenceForUpdateNoWalk(d, userID, folderID, newParentID, depth) ==
    IF depth > MaxDepth THEN "maximum folder depth exceeded"
    ELSE IF newParentID = folderID THEN "folder cannot be its own parent"
    ELSE NoErr

RECURSIVE checkCircularReferenceForUpdate(_, _, _, _, _)
checkCircularReferenceForUpdate(d, userID, folderID, newParentID, depth) ==
    IF CircularReferenceForUpdateStep(d, userID, folderID, newParentID, depth) = "recurse"
    THEN checkCircularReferenceForUpdate(d, userID, folderID,
                                         d.folders[newParentID].parent_id, depth + 1)
    ELSE CircularReferenceForUpdateStep(d, userID, folderID, newParentID, depth)

\* fmt.Errorf("circular reference detected: %w", err)
WrapCircular(e) ==
    CASE e = "maximum folder depth exceeded" -> ErrDepthMsg
      [] e = "folder cannot be its own parent" -> ErrCircularSelfMsg
      [] OTHER -> ErrCircularMsg

\* the parent validation of CreateFolder without the owner comparison
CreateFolderParentErrAnyOwner(d, folder, fail) ==
    IF folder.parent_id = NULL THEN NoErr
    ELSE IF fail = 2 THEN ErrValidateParentMsg
    ELSE IF folder.parent_id \notin DOMAIN d.folders THEN ErrParentMissingMsg
    ELSE IF fail = 3 THEN ErrWalkMsg
    ELSE LET e == checkCircularReference(d, folder.user_id, folder.parent_id, 0)
         IN IF e # NoErr THEN WrapCircular(e) ELSE NoErr

\* database.CreateFolder; fail names the statement that the store fails
\* (0 none, 1 begin, 2 parent lookup, 3 parent walk, 4 name check, 5 insert,
\* 6 commit)
CreateFolderParentErr(d, folder, fail) ==
    IF folder.parent_id = NULL THEN NoErr
    ELSE IF fail = 2 THEN ErrValidateParentMsg
    ELSE IF folder.parent_id \notin DOMAIN d.folders THEN ErrParentMissingMsg
    ELSE IF d.folders[folder.parent_id].user_id # folder.user_id THEN ErrParentForeignMsg
    ELSE IF fail = 3 THEN ErrWalkMsg
    ELSE LET e == checkCircularReference(d, folder.user_id, folder.parent_id, 0)
         IN IF e # NoErr THEN WrapCircular(e) ELSE NoErr

DbCreateFolder(d, folder, fail) ==
    LET perr == CreateFolderParentErr(d, folder, fail)
        tx == SqlInsertFolder(d, folder.user_id, folder.name, folder.parent_id)
        err == IF fail = 1 THEN ErrBeginMsg
               ELSE IF perr # NoErr THEN perr
               ELSE IF fail = 4 THEN ErrNameCheckMsg
               ELSE IF NameCount(d, folder.user_id, folder.name, folder.parent_id, 0) > 0
                    THEN ErrDuplicateMsg
               ELSE IF fail = 5 THEN ErrInsertFolderMsg
               ELSE IF fail = 6 THEN ErrCommitMsg
               ELSE NoErr
    IN [err |-> err,
        db |-> IF err = NoErr THEN tx
               ELSE Rollback(d, IF err = ErrCommitMsg THEN tx ELSE d),
        id |-> IF err = NoErr THEN d.nextFolderID ELSE 0]

\* database.UpdateFolder (0 none, 1 begin, 2 current row, 3 parent lookup,
\* 4 parent walk, 5 name check, 6 update, 7 commit)
UpdateFolderParentErr(d, folderID, folder, fail) ==
    IF folder.parent_id = NULL THEN NoErr
    ELSE IF fail = 3 THEN ErrValidateParentMsg
    ELSE IF folder.parent_id \notin DOMAIN d.folders THEN ErrParentMissingMsg
    ELSE IF d.folders[folder.parent_id].user_id # folder.user_id THEN ErrParentForeignMsg
    ELSE IF folder.parent_id = folderID THEN ErrOwnParentMsg
    ELSE IF d.folders[folderID].parent_id # NULL
            /\ d.folders[folderID].parent_id = folder.parent_id THEN NoErr
    ELSE IF fail = 4 THEN ErrWalkMsg
    ELSE LET e == checkCircularReferenceForUpdate(d, folder.user_id, folderID,
                                                  folder.parent_id, 0)
         IN IF e # NoErr THEN WrapCircular(e) ELSE NoErr

DbUpdateFolder(d, folderID, folder, fail) ==
    LET tx == [d EXCEPT !.folders[folderID].name = folder.name,
                        !.folders[folderID].parent_id = folder.parent_id]
        err == IF fail \in {1, 2} THEN ErrDbMsg
               ELSE IF folderID \notin DOMAIN d.folders THEN ErrNoFolderMsg
               ELSE LET perr == UpdateFolderParentErr(d, folderID, folder, fail)
                    IN IF perr # NoErr THEN perr
                       ELSE IF fail = 5 THEN ErrDbMsg
                       ELSE IF NameCount(d, folder.user_id, folder.name,
                                         folder.parent_id, folderID) > 0
                            THEN ErrDuplicateMsg
                       ELSE IF fail \in {6, 7} THEN ErrDbMsg
                       ELSE NoErr
    IN [err |-> err,
        db |-> IF err = NoErr THEN tx
               ELSE Rollback(d, IF fail = 7 /\ err = ErrDbMsg THEN tx ELSE d),
        id |-> folderID]

\* database.DeleteFolder (0 none, 1 begin, 2 existence, 3 child count,
\* 4 snippet count, 5 move snippets to root, 6 delete, 7 commit)
ChildCountSkipped(d, folderID) == 0

ChildCount(d, folderID) ==
    Cardinality({f \in DOMAIN d.folders : d.folders[f].parent_id = folderID})

SnippetCount(d, folderID) ==
    Cardinality({s \in DOMAIN d.snippets : d.snippets[s].folder_id = folderID})

DbDeleteFolder(d, folderID, fail) ==
    LET moved == IF SnippetCount(d, folderID) > 0
                 THEN SqlMoveSnippetsToRoot(d, folderID) ELSE d
        deleted == SqlDeleteFolder(moved, folderID)
        r == IF fail \in {1, 2} THEN [err |-> ErrDbMsg, tx |-> d]
             ELSE IF folderID \notin DOMAIN d.folders
                  THEN [err |-> ErrNoFolderMsg, tx |-> d]
             ELSE IF fail = 3 THEN [err |-> ErrDbMsg, tx |-> d]
             ELSE IF ChildCount(d, folderID) > 0
                  THEN [err |-> ErrHasChildrenMsg, tx |-> d]
             ELSE IF fail = 4 THEN [err |-> ErrDbMsg, tx |-> d]
             ELSE IF fail = 5 /\ SnippetCount(d, folderID) > 0
                  THEN [err |-> ErrDbMsg, tx |-> d]
             ELSE IF fail = 6 THEN [err |-> ErrDbMsg, tx |-> moved]
             ELSE IF fail = 7 THEN [err |-> ErrDbMsg, tx |-> deleted]
             ELSE [err |-> NoErr, tx |-> deleted]
    IN [err |-> r.err,
        db |-> IF r.err = NoErr THEN r.tx ELSE Rollback(d, r.tx),
        id |-> folderID]

\* database.GetFolder
DbGetFolder(d, folderID) ==
    IF folderID \in DOMAIN d.folders
    THEN [err |-> NoErr, row |-> d.folders[folderID]]
    ELSE [err |-> ErrNoFolderMsg, row |-> [user_id |-> 0, name |-> <<>>, parent_id |-> NULL]]

\* ----------------------------------------------------- snippets: the store
\* the tag row of (user_id, name), or 0: SELECT id FROM tags WHERE ...
TagIDOf(d, userID, name) ==
    IF \E t \in DOMAIN d.tags : d.tags[t].user_id = userID /\ d.tags[t].name = name
    THEN CHOOSE t \in DOMAIN d.tags : d.tags[t].user_id = userID /\ d.tags[t].name = name
    ELSE 0

\* the get-or-create half of the loop body of insertSnippetTags
GetOrCreateTag(d, userID, name) ==
    IF TagIDOf(d, userID, name) # 0 THEN d
    ELSE [d EXCEPT !.tags = d.tags @@ (d.nextTagID :> [user_id |-> userID, name |-> name]),
                   !.nextTagID = d.nextTagID + 1]

\* INSERT INTO snippet_tags ... ON CONFLICT DO NOTHING
LinkTag(d, snippetID, userID, name) ==
    [d EXCEPT !.snippet_tags = d.snippet_tags \cup {<<snippetID, TagIDOf(d, userID, name)>>}]

RECURSIVE insertSnippetTags(_, _, _, _)
insertSnippetTags(d, snippetID, userID, tagNames) ==
    IF tagNames = <<>> THEN d
    ELSE LET tagName == TrimSpace(Head(tagNames))
         IN IF tagName = <<>>
            THEN insertSnippetTags(d, snippetID, userID, Tail(tagNames))
            ELSE insertSnippetTags(
                     LinkTag(GetOrCreateTag(d, userID, tagName), snippetID, userID, tagName),
                     snippetID, userID, Tail(tagNames))

\* insertSnippetTags when the store fails the link statement of the last name
insertSnippetTagsFailing(d, snippetID, userID, tagNames) ==
    LET n == Len(tagNames)
        before == insertSnippetTags(d, snippetID, userID, SubSeq(tagNames, 1, n - 1))
        tagName == TrimSpace(tagNames[n])
    IN IF tagName = <<>> THEN before ELSE GetOrCreateTag(before, userID, tagName)

\* the foreign key snippets.folder_id REFERENCES folders(id)
FolderFKHolds(d, folderID) == folderID = NULL \/ folderID \in DOMAIN d.folders

\* database.CreateSnippet (0 none, 1 begin, 2 insert, 3 tag link, 4 commit)
DbCreateSnippet(d, snippet, fail) ==
    LET id == d.nextSnippetID
        inserted == [d EXCEPT !.snippets = d.snippets @@ (id :>
                         [user_id |-> snippet.user_id, folder_id |-> snippet.folder_id,
                          title |-> snippet.title]),
                     !.nextSnippetID = id + 1]
        withTags == snippet.tags.present /\ Len(snippet.tags.list) > 0
        tagged == IF withTags
                  THEN insertSnippetTags(inserted, id, snippet.user_id, snippet.tags.list)
                  ELSE inserted
        r == IF fail = 1 THEN [err |-> ErrBeginMsg, tx |-> d]
             ELSE IF fail = 2 \/ ~FolderFKHolds(d, snippet.folder_id)
                  THEN [err |-> ErrInsertSnippetMsg, tx |-> d]
             ELSE IF fail = 3 /\ withTags
                  THEN [err |-> ErrSnippetTagsMsg,
                        tx |-> insertSnippetTagsFailing(inserted, id, snippet.user_id,
                                                        snippet.tags.list)]
             ELSE IF fail = 4 THEN [err |-> ErrCommitMsg, tx |-> tagged]
             ELSE [err |-> NoErr, tx |-> tagged]
    IN [err |-> r.err,
        db |-> IF r.err = NoErr THEN r.tx ELSE Rollback(d, r.tx),
        id |-> IF r.err = NoErr THEN id ELSE 0]

\* an update that keeps the previous links
SqlDeleteLinksKept(d, snippetID) == d

\* DELETE FROM snippet_tags WHERE snippet_id = $1
SqlDeleteLinks(d, snippetID) ==
    [d EXCEPT !.snippet_tags = {l \in d.snippet_tags : l[1] # snippetID}]

\* an update that takes every request as one that supplies a tag list
TagsSuppliedAlways(snippet) == TRUE

\* snippet.Tags != nil: the request carried a tags field
TagsSupplied(snippet) == snippet.tags.present

\* database.UpdateSnippet (0 none, 1 begin, 2 current row, 3 update,
\* 4 delete links, 5 tag link, 6 commit, 7 the tag read after the commit)
DbUpdateSnippet(d, snippetID, snippet, fail) ==
    LET currentUserID == d.snippets[snippetID].user_id
        updated == [d EXCEPT !.snippets[snippetID].folder_id = snippet.folder_id,
                             !.snippets[snippetID].title = snippet.title]
        unlinked == IF TagsSupplied(snippet) THEN SqlDeleteLinks(updated, snippetID)
                    ELSE updated
        withTags == snippet.tags.present /\ Len(snippet.tags.list) > 0
        tagged == IF withTags
                  THEN insertSnippetTags(unlinked, snippetID, currentUserID,
                                         snippet.tags.list)
                  ELSE unlinked
        r == IF fail = 1 THEN [err |-> ErrBeginMsg, tx |-> d]
             ELSE IF fail = 2 THEN [err |-> ErrCheckSnippetMsg, tx |-> d]
             ELSE IF snippetID \notin DOMAIN d.snippets
                  THEN [err |-> ErrNoSnippetMsg, tx |-> d]
             ELSE IF fail = 3 \/ ~FolderFKHolds(d, snippet.folder_id)
                  THEN [err |-> ErrUpdateSnippetMsg, tx |-> d]
             ELSE IF fail = 4 /\ snippet.tags.present
                  THEN [err |-> ErrUpdateTagsMsg, tx |-> updated]
             ELSE IF fail = 5 /\ withTags
                  THEN [err |-> ErrUpdateTagsMsg,
                        tx |-> insertSnippetTagsFailing(unlinked, snippetID,
                                                        currentUserID, snippet.tags.list)]
             ELSE IF fail = 6 THEN [err |-> ErrCommitUpdateMsg, tx |-> tagged]
             ELSE IF fail = 7 /\ snippet.tags.present
                  THEN [err |-> ErrRetrieveTagsMsg, tx |-> tagged]
             ELSE [err |-> NoErr, tx |-> tagged]
    IN [err |-> r.err,
        db |-> IF r.err \in {NoErr, ErrRetrieveTagsMsg} THEN r.tx ELSE Rollback(d, r.tx),
        id |-> snippetID]

\* database.DeleteSnippet: one statement; snippet_tags rows go by ON DELETE
\* CASCADE (0 none, 1 the delete)
DbDeleteSnippet(d, snippetID, fail) ==
    LET err == IF fail = 1 THEN ErrDeleteSnippetMsg
               ELSE IF snippetID \notin DOMAIN d.snippets THEN ErrNoSnippetMsg
               ELSE NoErr
    IN [err |-> err,
        db |-> IF err = NoErr
               THEN [d EXCEPT !.snippets = Remove(d.snippets, snippetID),
                              !.snippet_tags = {l \in d.snippet_tags : l[1] # snippetID}]
               ELSE d,
        id |-> snippetID]

\* database.GetSnippet
DbGetSnippet(d, snippetID) ==
    IF snippetID \in DOMAIN d.snippets
    THEN [err |-> NoErr, row |-> d.snippets[snippetID]]
    ELSE [err |-> ErrNoSnippetMsg,
          row |-> [user_id |-> 0, folder_id |-> NULL, title |-> <<>>]]

\* ------------------------------------------------------------ the handlers
Resp(status, body, d, id) == [status |-> status, body |-> body, db |-> d, id |-> id]

AllIn(str, chars) == \A i \in 1..Len(str) : str[i] \in chars

\* FolderHandler.validateFolder: the first failing rule, and the cleaned folder
validateFolder(folder) ==
    LET name == TrimSpace(folder.name)
        err == IF name = <<>> THEN "folder name is required"
               ELSE IF Len(name) > MaxFolderNameLength
                    THEN "folder name must be less than 100 characters"
               ELSE IF ~AllIn(name, FolderNameChars)
                    THEN "folder name can only contain letters, numbers, underscores, hyphens, spaces, and periods"
               ELSE IF folder.user_id <= 0 THEN "valid user ID is required"
               ELSE IF folder.parent_id # NULL /\ folder.parent_id <= 0
                    THEN "parent folder ID must be positive if provided"
               ELSE IF folder.parent_id # NULL /\ folder.id # 0
                       /\ folder.parent_id = folder.id
                    THEN "folder cannot be its own parent"
               ELSE NoErr
    IN [err |-> err, folder |-> [folder EXCEPT !.name = name]]

\* a handler that trusts the body's user_id
SetUserIDFromBody(body, caller) == body

\* the caller's id replaces whatever user_id the body carries
SetUserID(body, caller) == [body EXCEPT !.user_id = caller]

\* the error branch of FolderHandler.CreateFolder
CreateFolderError(err, d) ==
    IF Contains(err, "already exists")
    THEN Resp(409, "Folder name already exists in this location", d, 0)
    ELSE IF Contains(err, "parent folder")
         THEN Resp(400, "Invalid parent folder", d, 0)
    ELSE IF Contains(err, "circular reference")
         THEN Resp(400, "Cannot create folder: circular reference detected", d, 0)
    ELSE IF ErrorsIs(err, "ErrDatabaseError")
         THEN Resp(500, "Unable to process request at this time", d, 0)
    ELSE Resp(500, "An unexpected error occurred", d, 0)

FolderHandlerCreateFolder(d, caller, body, fail) ==
    LET v == validateFolder(SetUserID(body, caller))
        r == DbCreateFolder(d, v.folder, fail)
    IN IF v.err # NoErr THEN Resp(400, v.err, d, 0)
       ELSE IF r.err = NoErr THEN Resp(201, "folder", r.db, r.id)
       ELSE CreateFolderError(r.err, r.db)

FolderHandlerGetFolder(d, caller, folderID) ==
    LET g == DbGetFolder(d, folderID)
    IN IF ErrorsIs(g.err, "ErrNoFolderError") THEN Resp(404, "Folder not found", d, folderID)
       ELSE IF g.row.user_id # caller THEN Resp(404, "Folder not found", d, folderID)
       ELSE Resp(200, "folder", d, folderID)

\* the error branch of FolderHandler.UpdateFolder
UpdateFolderError(err, d, folderID) ==
    IF ErrorsIs(err, "ErrNoFolderError") THEN Resp(404, "Folder not found", d, folderID)
    ELSE IF Contains(err, "already exists")
         THEN Resp(409, "Folder name already exists in this location", d, folderID)
    ELSE IF Contains(err, "parent folder")
         THEN Resp(400, "Invalid parent folder", d, folderID)
    ELSE IF Contains(err, "circular reference")
         THEN Resp(400, "Cannot update folder: circular reference detected", d, folderID)
    ELSE IF ErrorsIs(err, "ErrDatabaseError")
         THEN Resp(500, "Unable to process request at this time", d, folderID)
    ELSE Resp(500, "An unexpected error occurred", d, folderID)

FolderHandlerUpdateFolder(d, caller, folderID, body, fail) ==
    LET g == DbGetFolder(d, folderID)
        v == validateFolder(SetUserID(body, caller))
        r == DbUpdateFolder(d, folderID, v.folder, fail)
    IN IF folderID <= 0 THEN Resp(400, "Invalid folder ID", d, folderID)
       ELSE IF ErrorsIs(g.err, "ErrNoFolderError")
            THEN Resp(404, "Folder not found", d, folderID)
       ELSE IF g.row.user_id # caller THEN Resp(404, "Folder not found", d, folderID)
       ELSE IF v.err # NoErr THEN Resp(400, v.err, d, folderID)
       ELSE IF r.err = NoErr THEN Resp(200, "folder", r.db, folderID)
       ELSE UpdateFolderError(r.err, r.db, folderID)

\* the error branch of FolderHandler.DeleteFolder
DeleteFolderError(err, d, folderID) ==
    IF ErrorsIs(err, "ErrNoFolderError") THEN Resp(404, "Folder not found", d, folderID)
    ELSE IF ErrorsIs(err, "ErrFolderHasChildren")
         THEN Resp(409, "Cannot delete folder: folder contains subfolders", d, folderID)
    ELSE IF ErrorsIs(err, "ErrDatabaseError")
         THEN Resp(500, "Unable to process request at this time", d, folderID)
    ELSE Resp(500, "An unexpected error occurred", d, folderID)

FolderHandlerDeleteFolder(d, caller, folderID, fail) ==
    LET g == DbGetFolder(d, folderID)
        r == DbDeleteFolder(d, folderID, fail)
    IN IF folderID <= 0 THEN Resp(400, "Invalid folder ID", d, folderID)
       ELSE IF ErrorsIs(g.err, "ErrNoFolderError")
            THEN Resp(404, "Folder not found", d, folderID)
       ELSE IF g.row.user_id # caller THEN Resp(404, "Folder not found", d, folderID)
       ELSE IF r.err = NoErr THEN Resp(204, "", r.db, folderID)
       ELSE DeleteFolderError(r.err, r.db, folderID)

\* the tag half of validateSnippet: every tag trimmed, then checked
TrimAll(list) == [i \in 1..Len(list) |-> TrimSpace(list[i])]

TagError(tag) ==
    IF tag = <<>> THEN "tags cannot be empty"
    ELSE IF Len(tag) > MaxTagLength THEN "each tag must be less than 50 characters"
    ELSE IF ~AllIn(tag, TagChars)
         THEN "tags can only contain letters, numbers, underscores, hyphens, and spaces"
    ELSE NoErr

\* tags are trimmed and checked in list order; the loop returns at the first
\* failing tag
RECURSIVE FirstTagError(_)
FirstTagError(list) ==
    IF list = <<>> THEN NoErr
    ELSE IF TagError(TrimSpace(Head(list))) # NoErr THEN TagError(TrimSpace(Head(list)))
    ELSE FirstTagError(Tail(list))

\* a tag list left as it is: duplicates stay
UniqueTagsKeepAll(list, tagMap) == list

\* "Remove duplicate tags": the first tag of each lower-cased name is kept
RECURSIVE UniqueTags(_, _)
UniqueTags(list, tagMap) ==
    IF list = <<>> THEN <<>>
    ELSE IF ToLower(Head(list)) \in tagMap THEN UniqueTags(Tail(list), tagMap)
    ELSE <<Head(list)>> \o UniqueTags(Tail(list), tagMap \cup {ToLower(Head(list))})

\* SnippetHandler.validateSnippet, for the fields the rows keep
validateSnippet(snippet) ==
    LET title == TrimSpace(snippet.title)
        terr == IF ~snippet.tags.present THEN NoErr
                ELSE IF Len(snippet.tags.list) > MaxTagsPerSnippet
                     THEN "snippet cannot have more than 20 tags"
                ELSE FirstTagError(snippet.tags.list)
        err == IF title = <<>> THEN "title is required"
               ELSE IF Len(title) > MaxTitleLength
                    THEN "title must be less than 200 characters"
               ELSE IF snippet.user_id <= 0 THEN "valid user ID is required"
               ELSE IF snippet.folder_id # NULL /\ snippet.folder_id <= 0
                    THEN "folder ID must be positive if provided"
               ELSE terr
    IN [err |-> err,
        snippet |-> [snippet EXCEPT !.title = title,
                        !.tags = IF snippet.tags.present /\ err = NoErr
                                 THEN [present |-> TRUE,
                                       list |-> UniqueTags(TrimAll(snippet.tags.list), {})]
                                 ELSE snippet.tags]]

SnippetHandlerCreateSnippet(d, caller, body, fail) ==
    LET v == validateSnippet(SetUserID(body, caller))
        r == DbCreateSnippet(d, v.snippet, fail)
    IN IF v.err # NoErr THEN Resp(400, v.err, d, 0)
       ELSE IF r.err = NoErr THEN Resp(201, "snippet", r.db, r.id)
       ELSE IF ErrorsIs(r.err, "ErrDatabaseError")
            THEN Resp(500, "Unable to process request at this time", r.db, 0)
       ELSE Resp(500, "An unexpected error occurred", r.db, 0)

SnippetHandlerGetSnippet(d, caller, snippetID) ==
    LET g == DbGetSnippet(d, snippetID)
    IN IF ErrorsIs(g.err, "ErrNoSnippetError")
       THEN Resp(404, "Snippet not found", d, snippetID)
       ELSE IF g.row.user_id # caller THEN Resp(404, "Snippet not found", d, snippetID)
       ELSE Resp(200, "snippet", d, snippetID)

SnippetHandlerUpdateSnippet(d, caller, snippetID, body, fail) ==
    LET g == DbGetSnippet(d, snippetID)
        v == validateSnippet(SetUserID(body, caller))
        r == DbUpdateSnippet(d, snippetID, v.snippet, fail)
    IN IF snippetID <= 0 THEN Resp(400, "Invalid snippet ID", d, snippetID)
       ELSE IF ErrorsIs(g.err, "ErrNoSnippetError")
            THEN Resp(404, "Snippet not found", d, snippetID)
       ELSE IF g.row.user_id # caller THEN Resp(404, "Snippet not found", d, snippetID)
       ELSE IF v.err # NoErr THEN Resp(400, v.err, d, snippetID)
       ELSE IF r.err = NoErr THEN Resp(200, "snippet", r.db, snippetID)
       ELSE IF ErrorsIs(r.err, "ErrNoSnippetError")
            THEN Resp(404, "Snippet not found", r.db, snippetID)
       ELSE IF ErrorsIs(r.err, "ErrDatabaseError")
            THEN Resp(500, "Unable to process request at this time", r.db, snippetID)
       ELSE Resp(500, "An unexpected error occurred", r.db, snippetID)

SnippetHandlerDeleteSnippet(d, caller, snippetID, fail) ==
    LET g == DbGetSnippet(d, snippetID)
        r == DbDeleteSnippet(d, snippetID, fail)
    IN IF snippetID <= 0 THEN Resp(400, "Invalid snippet ID", d, snippetID)
       ELSE IF ErrorsIs(g.err, "ErrNoSnippetError")
            THEN Resp(404, "Snippet not found", d, snippetID)
       ELSE IF g.row.user_id # caller THEN Resp(404, "Snippet not found", d, snippetID)
       ELSE IF r.err = NoErr THEN Resp(204, "", r.db, snippetID)
       ELSE IF ErrorsIs(r.err, "ErrNoSnippetError")
            THEN Resp(404, "Snippet not found", r.db, snippetID)
       ELSE IF ErrorsIs(r.err, "ErrDatabaseError")
            THEN Resp(500, "Unable to process request at this time", r.db, snippetID)
       ELSE Resp(500, "An unexpected error occurred", r.db, snippetID)

\* ------------------------------------------------------------- the requests
\* request inputs: ids on the path and in the body, raw names and titles
PathIDs == 1..MaxFolders
SnippetPathIDs == 1..MaxSnippets
BodyParentIDs == {NULL, 0} \cup (1..MaxFolders)
FolderNameInputs == {<<" ", "a">>, <<"A">>, <<" ">>, <<"a", "/">>}
TitleInputs == {<<"t", " ">>, <<" ">>}
TagInputs == {<<"G", "o">>, <<"g", "o", " ">>, <<"p", "y">>}
TagLists == UNION {[1..n -> TagInputs] : n \in 0..MaxTagList}
NoTags == [present |-> FALSE, list |-> <<>>]
TagBodies == {[present |-> TRUE, list |-> l] : l \in TagLists}

FolderBodies(ids, userIDs, names, parents) ==
    [id : ids, user_id : userIDs, name : names, parent_id : parents]

SnippetBodies(userIDs, folderIDs, titles, tagBodies) ==
    [user_id : userIDs, folder_id : folderIDs, title : titles, tags : tagBodies]

\* the handler's transaction result becomes the store; last is the request
\* (which handler, for whom, on which id, which statement the store failed)
\* and its response
Commit(op, caller, fail, r) ==
    /\ folders' = r.db.folders
    /\ snippets' = r.db.snippets
    /\ tags' = r.db.tags
    /\ snippet_tags' = r.db.snippet_tags
    /\ nextFolderID' = r.db.nextFolderID
    /\ nextSnippetID' = r.db.nextSnippetID
    /\ nextTagID' = r.db.nextTagID
    /\ last' = [op |-> op, caller |-> caller, id |-> r.id, fail |-> fail,
                status |-> r.status, body |-> r.body]
    /\ UNCHANGED inflight
    /\ UNCHANGED authVars

CreateFolderReq(caller, body, fail) ==
    Commit("CreateFolder", caller, fail, FolderHandlerCreateFolder(DB, caller, body, fail))

GetFolderReq(caller, folderID) ==
    Commit("GetFolder", caller, 0, FolderHandlerGetFolder(DB, caller, folderID))

UpdateFolderReq(caller, folderID, body, fail) ==
    Commit("UpdateFolder", caller, fail,
           FolderHandlerUpdateFolder(DB, caller, folderID, body, fail))

DeleteFolderReq(caller, folderID, fail) ==
    Commit("DeleteFolder", caller, fail, FolderHandlerDeleteFolder(DB, caller, folderID, fail))

CreateSnippetReq(caller, body, fail) ==
    LET r == SnippetHandlerCreateSnippet(DB, caller, body, fail)
    IN /\ nextSnippetID <= MaxSnippets
       /\ r.db.nextTagID <= MaxTags + 1
       /\ Commit("CreateSnippet", caller, fail, r)

GetSnippetReq(caller, snippetID) ==
    Commit("GetSnippet", caller, 0, SnippetHandlerGetSnippet(DB, caller, snippetID))

UpdateSnippetReq(caller, snippetID, body, fail) ==
    LET r == SnippetHandlerUpdateSnippet(DB, caller, snippetID, body, fail)
    IN /\ r.db.nextTagID <= MaxTags + 1
       /\ Commit("UpdateSnippet", caller, fail, r)

DeleteSnippetReq(caller, snippetID, fail) ==
    Commit("DeleteSnippet", caller, fail,
           SnippetHandlerDeleteSnippet(DB, caller, snippetID, fail))

\* the folder hierarchy, one request at a time
Next ==
    \/ \E c \in Users, b \in FolderBodies({0}, {0}, FolderNameInputs, BodyParentIDs) :
           /\ nextFolderID <= MaxFolders
           /\ CreateFolderReq(c, b, 0)
    \/ \E c \in Users, f \in PathIDs : GetFolderReq(c, f)
    \/ \E c \in Users, f \in PathIDs,
          b \in FolderBodies({0}, {0}, FolderNameInputs, BodyParentIDs) :
           UpdateFolderReq(c, f, b, 0)
    \/ \E c \in Users, f \in PathIDs : DeleteFolderReq(c, f, 0)

Spec == Init /\ [][Next]_vars

\* folders and the snippets filed in them, one request at a time; the store
\* may fail any statement of DeleteFolder
FiledFolderIDs == {NULL, 0} \cup (1..MaxFiledFolders + 1)

NextFiling ==
    \/ \E c \in Users, b \in FolderBodies({0}, Users, {<<"a">>}, FiledFolderIDs) :
           /\ nextFolderID <= MaxFiledFolders
           /\ CreateFolderReq(c, b, 0)
    \/ \E c \in Users, f \in 1..MaxFiledFolders,
          b \in FolderBodies({0}, Users, {<<"a">>}, FiledFolderIDs) :
           UpdateFolderReq(c, f, b, 0)
    \/ \E c \in Users, f \in 1..MaxFiledFolders, k \in 0..7 : DeleteFolderReq(c, f, k)
    \/ \E c \in Users, b \in SnippetBodies(Users, FiledFolderIDs, TitleInputs, {NoTags}) :
           CreateSnippetReq(c, b, 0)
    \/ \E c \in Users, s \in SnippetPathIDs : GetSnippetReq(c, s)
    \/ \E c \in Users, s \in SnippetPathIDs,
          b \in SnippetBodies(Users, FiledFolderIDs, TitleInputs, {NoTags}) :
           UpdateSnippetReq(c, s, b, 0)
    \/ \E c \in Users, s \in SnippetPathIDs : DeleteSnippetReq(c, s, 0)

SpecFiling == Init /\ [][NextFiling]_vars

\* snippets and their tags, one request at a time
TagSnippetBodies == SnippetBodies({0}, {NULL}, {<<"t">>}, TagBodies \cup {NoTags})

NextTags ==
    \/ \E c \in Users, b \in TagSnippetBodies : CreateSnippetReq(c, b, 0)
    \/ \E c \in Users, s \in SnippetPathIDs, b \in TagSnippetBodies :
           UpdateSnippetReq(c, s, b, 0)
    \/ \E c \in Users, s \in SnippetPathIDs : DeleteSnippetReq(c, s, 0)

SpecTags == Init /\ [][NextTags]_vars

\* every multi-statement write, one request at a time, with the store failing
\* any one statement of the request
\* one caller: no claim about a failing store depends on a second account
FaultCallers == {1}
FaultParentIDs == {NULL, 1}
FaultTagLists == {<<>>, <<<<"G", "o">>>>, <<<<"g", "o">>, <<"p", "y">>>>}
FaultSnippetBodies ==
    SnippetBodies({0}, {NULL}, {<<"t">>},
                  {[present |-> TRUE, list |-> l] : l \in FaultTagLists} \cup {NoTags})

NextFaults ==
    \/ \E c \in FaultCallers, b \in FolderBodies({0}, {0}, {<<"a">>}, FaultParentIDs), k \in 0..6 :
           /\ nextFolderID <= MaxFiledFolders
           /\ CreateFolderReq(c, b, k)
    \/ \E c \in FaultCallers, f \in 1..MaxFiledFolders,
          b \in FolderBodies({0}, {0}, {<<"a">>}, FaultParentIDs), k \in 0..7 :
           UpdateFolderReq(c, f, b, k)
    \/ \E c \in FaultCallers, f \in 1..MaxFiledFolders, k \in 0..7 : DeleteFolderReq(c, f, k)
    \/ \E c \in FaultCallers, b \in FaultSnippetBodies, k \in 0..4 : CreateSnippetReq(c, b, k)
    \/ \E c \in FaultCallers, s \in SnippetPathIDs, b \in FaultSnippetBodies, k \in 0..7 :
           UpdateSnippetReq(c, s, b, k)

SpecFaults == Init /\ [][NextFaults]_vars

\* ---------------------------------------------------- accounts: the store
\* the users table as one value
UDB == [users |-> users, nextUserID |-> nextUserID]

ErrUsernameExistsMsg == "username already exists"
ErrNoUserMsg == "user does not exist"
ErrUserNotFoundMsg == "user not found"

\* SELECT COUNT(*) FROM users WHERE username = $1 [AND id != $2]
UsernameCount(ud, username, exceptID) ==
    Cardinality({u \in DOMAIN ud.users :
                    ud.users[u].username = username /\ u # exceptID})

\* INSERT INTO users (username, password_hash) ... RETURNING id
SqlInsertUser(ud, username, hash) ==
    [ud EXCEPT !.users = ud.users @@ (ud.nextUserID :>
                   [username |-> username, password_hash |-> hash]),
               !.nextUserID = ud.nextUserID + 1]

\* database.CreateUserWithPassword, run without interruption
CreateUserWithPassword(ud, username, hash) ==
    IF UsernameCount(ud, username, 0) > 0
    THEN [err |-> ErrUsernameExistsMsg, udb |-> ud, id |-> 0]
    ELSE [err |-> NoErr, udb |-> SqlInsertUser(ud, username, hash), id |-> ud.nextUserID]

\* database.GetUserByUsername
GetUserByUsername(ud, username) ==
    IF \E u \in DOMAIN ud.users : ud.users[u].username = username
    THEN [err |-> NoErr,
          id |-> CHOOSE u \in DOMAIN ud.users : ud.users[u].username = username]
    ELSE [err |-> ErrUserNotFoundMsg, id |-> 0]

\* database.GetUser
GetUser(ud, userID) ==
    IF userID \in DOMAIN ud.users THEN NoErr ELSE ErrNoUserMsg

\* database.UpdateUser
UpdateUser(ud, userID, username) ==
    IF userID \notin DOMAIN ud.users THEN [err |-> ErrNoUserMsg, udb |-> ud]
    ELSE IF username # ud.users[userID].username /\ UsernameCount(ud, username, userID) > 0
         THEN [err |-> ErrUsernameExistsMsg, udb |-> ud]
    ELSE [err |-> NoErr, udb |-> [ud EXCEPT !.users[userID].username = username]]

\* database.DeleteUser
DeleteUser(ud, userID) ==
    IF userID \notin DOMAIN ud.users THEN [err |-> ErrNoUserMsg, udb |-> ud]
    ELSE [err |-> NoErr, udb |-> [ud EXCEPT !.users = Remove(ud.users, userID)]]

\* database.UpdateUserPassword
UpdateUserPassword(ud, userID, hash) ==
    IF userID \notin DOMAIN ud.users THEN [err |-> ErrNoUserMsg, udb |-> ud]
    ELSE [err |-> NoErr, udb |-> [ud EXCEPT !.users[userID].password_hash = hash]]

\* bcrypt: the hash determines the password it was made from
GenerateFromPassword(password) == <<"$2a$">> \o password
CompareHashAndPassword(hash, password) == hash = GenerateFromPassword(password)

\* ------------------------------------------------------------------ tokens
\* Time is counted in half seconds, so that the truncation of the token's
\* dates to whole seconds is computed.
TokenTTL == 24 * 60 * 60 * 2
Leeway == 5 * 60 * 2

ErrTokenExpiredMsg == "failed to parse token: token has invalid claims: token is expired"
ErrTokenUserMsg == "invalid user ID in token"

\* fmt.Sprintf("Invalid token: %s", err.Error())
InvalidTokenBody(err) ==
    IF err = ErrTokenExpiredMsg
    THEN "Invalid token: failed to parse token: token has invalid claims: token is expired"
    ELSE "Invalid token: invalid user ID in token"

\* jwt.NewNumericDate: the time truncated to the second
NewNumericDate(t) == t - (t % 2)

\* AuthMiddleware.GenerateToken at time t
GenerateToken(userID, username, t) ==
    [user_id |-> userID, username |-> username,
     exp |-> NewNumericDate(t + TokenTTL), iat |-> NewNumericDate(t)]

\* a validator without the clock-skew leeway
ValidateTokenNoLeeway(tk, t) ==
    IF ~(t < tk.exp) THEN ErrTokenExpiredMsg
    ELSE IF tk.user_id <= 0 THEN ErrTokenUserMsg
    ELSE NoErr

\* AuthMiddleware.ValidateToken at time t, for a token this server signed:
\* the parser compares t - leeway with the expiry
ValidateToken(tk, t) ==
    IF ~(t - Leeway < tk.exp) THEN ErrTokenExpiredMsg
    ELSE IF tk.user_id <= 0 THEN ErrTokenUserMsg
    ELSE NoErr

\* a middleware that trusts the token without comparing the username
RequireAuthAnyName(ud, tk, t) ==
    IF ValidateToken(tk, t) # NoErr
    THEN [status |-> 401, body |-> InvalidTokenBody(ValidateToken(tk, t))]
    ELSE IF GetUser(ud, tk.user_id) # NoErr
         THEN [status |-> 401, body |-> "User not found"]
    ELSE [status |-> 200, body |-> "next"]

\* AuthMiddleware.RequireAuth: 200 "next" stands for next.ServeHTTP
RequireAuth(ud, tk, t) ==
    IF ValidateToken(tk, t) # NoErr
    THEN [status |-> 401, body |-> InvalidTokenBody(ValidateToken(tk, t))]
    ELSE IF GetUser(ud, tk.user_id) # NoErr
         THEN [status |-> 401, body |-> "User not found"]
    ELSE IF ud.users[tk.user_id].username # tk.username
         THEN [status |-> 401, body |-> "Token claims do not match user data"]
    ELSE [status |-> 200, body |-> "next"]

\* ------------------------------------------------- accounts: the handlers
UpperLetters == {"A", "G", "O"}
LowerLetters == {"a", "b", "g", "n", "o", "p", "t", "u", "y"}
Digits == {"0", "1", "9"}

\* the special characters isStrongPassword looks for
SpecialChars == {"!", "@", "#", "$", "%", "^", "&", "*", "(", ")", "_", "+", "-",
                 "=", "[", "]", "{", "}", "|", ";", ":", ",", ".", "<", ">", "?"}

\* the character class of validateUser: letters, digits, '_', '-'
UsernameChars == UpperLetters \cup LowerLetters \cup Digits \cup {"_", "-"}

\* a character outside ASCII: two bytes in UTF-8
TwoByteChars == {"e-acute"}

MinPasswordLength == 12
MinUsernameLength == 3
MaxUsernameLength == 50

\* len(s) of a Go string: its bytes
RECURSIVE GoLen(_)
GoLen(s) ==
    IF s = <<>> THEN 0
    ELSE (IF Head(s) \in TwoByteChars THEN 2 ELSE 1) + GoLen(Tail(s))

\* html.EscapeString
RECURSIVE EscapeString(_)
EscapeString(s) ==
    IF s = <<>> THEN <<>>
    ELSE (CASE Head(s) = "<" -> <<"&", "l", "t", ";">>
            [] Head(s) = ">" -> <<"&", "g", "t", ";">>
            [] Head(s) = "&" -> <<"&", "a", "m", "p", ";">>
            [] OTHER -> <<Head(s)>>) \o EscapeString(Tail(s))

ErrPasswordShortMsg == "password must be at least 12 characters long"
ErrPasswordWeakMsg == "password must contain at least one uppercase letter, one lowercase letter, one number, and one special character"

\* AuthHandler.isStrongPassword
isStrongPassword(password) ==
    /\ ~(GoLen(password) < MinPasswordLength)
    /\ \E i \in 1..Len(password) : password[i] \in UpperLetters
    /\ \E i \in 1..Len(password) : password[i] \in LowerLetters
    /\ \E i \in 1..Len(password) : password[i] \in Digits
    /\ \E i \in 1..Len(password) : password[i] \in SpecialChars

\* AuthHandler.validateRegistration
validateRegistration(username, password) ==
    IF TrimSpace(EscapeString(TrimSpace(username))) = <<>> THEN "username is required"
    ELSE IF TrimSpace(password) = <<>> THEN "password is required"
    ELSE IF GoLen(password) < MinPasswordLength THEN ErrPasswordShortMsg
    ELSE IF ~isStrongPassword(password) THEN ErrPasswordWeakMsg
    ELSE NoErr

\* AuthHandler.validateLogin
validateLogin(username, password) ==
    IF TrimSpace(username) = <<>> THEN "username is required"
    ELSE IF TrimSpace(password) = <<>> THEN "password is required"
    ELSE NoErr

\* AuthHandler.validateChangePassword
validateChangePassword(current, new) ==
    IF TrimSpace(current) = <<>> THEN "current password is required"
    ELSE IF TrimSpace(new) = <<>> THEN "new password is required"
    ELSE IF GoLen(new) < MinPasswordLength THEN ErrPasswordShortMsg
    ELSE IF current = new THEN "new password must be different from current password"
    ELSE IF ~isStrongPassword(new) THEN ErrPasswordWeakMsg
    ELSE NoErr

\* UserHandler.validateUser: the error, and the username it leaves in the body
validateUser(username) ==
    LET clean == TrimSpace(EscapeString(username))
    IN  IF TrimSpace(username) = <<>>
        THEN [err |-> "username is required", username |-> username]
        ELSE IF Len(clean) < MinUsernameLength
             THEN [err |-> "username must be at least 3 characters long", username |-> clean]
        ELSE IF Len(clean) > MaxUsernameLength
             THEN [err |-> "username must be less than 50 characters", username |-> clean]
        ELSE IF \E i \in 1..Len(clean) : clean[i] \notin UsernameChars
             THEN [err |-> "username can only contain letters, numbers, underscores, and hyphens",
                   username |-> clean]
        ELSE [err |-> NoErr, username |-> clean]

NoToken == [user_id |-> 0, username |-> <<>>, exp |-> 0, iat |-> 0]

\* what an account handler answers, the users table it leaves, the token it
\* hands out (or none) and the account it acted on
AuthResp(status, body, ud, token, id) ==
    [status |-> status, body |-> body, udb |-> ud, token |-> token, id |-> id]

\* the answer of Register to an error of CreateUserWithPassword
RegisterError(err, ud) ==
    IF err = ErrUsernameExistsMsg
    THEN AuthResp(409, "Username already exists", ud, NoToken, 0)
    ELSE IF ErrorsIs(err, "ErrDatabaseError")
         THEN AuthResp(500, "Unable to process request at this time", ud, NoToken, 0)
    ELSE AuthResp(500, "Failed to create user", ud, NoToken, 0)

\* AuthHandler.Register at time t
AuthHandlerRegister(ud, t, username, password) ==
    LET e == validateRegistration(username, password)
        c == CreateUserWithPassword(ud, username, GenerateFromPassword(password))
    IN  IF e # NoErr THEN AuthResp(400, e, ud, NoToken, 0)
        ELSE IF c.err # NoErr THEN RegisterError(c.err, ud)
        ELSE AuthResp(201, "token and user", c.udb, GenerateToken(c.id, username, t), c.id)

\* a login that tells an unknown username from a wrong password
AuthHandlerLoginTelling(ud, t, username, password) ==
    LET e == validateLogin(username, password)
        g == GetUserByUsername(ud, username)
    IN  IF e # NoErr THEN AuthResp(400, e, ud, NoToken, 0)
        ELSE IF g.err # NoErr
             THEN AuthResp(404, "User not found", ud, NoToken, 0)
        ELSE IF ~CompareHashAndPassword(ud.users[g.id].password_hash, password)
             THEN AuthResp(401, "Invalid username or password", ud, NoToken, g.id)
        ELSE AuthResp(200, "token and user", ud, GenerateToken(g.id, username, t), g.id)

\* AuthHandler.Login at time t
AuthHandlerLogin(ud, t, username, password) ==
    LET e == validateLogin(username, password)
        g == GetUserByUsername(ud, username)
    IN  IF e # NoErr THEN AuthResp(400, e, ud, NoToken, 0)
        ELSE IF g.err # NoErr
             THEN AuthResp(401, "Invalid username or password", ud, NoToken, 0)
        ELSE IF ~CompareHashAndPassword(ud.users[g.id].password_hash, password)
             THEN AuthResp(401, "Invalid username or password", ud, NoToken, g.id)
        ELSE AuthResp(200, "token and user", ud, GenerateToken(g.id, username, t), g.id)

\* AuthHandler.Me for the user the middleware admitted
AuthHandlerMe(ud, userID) == AuthResp(200, "user", ud, NoToken, userID)

\* AuthHandler.ChangePassword for the user the middleware admitted
AuthHandlerChangePassword(ud, userID, current, new) ==
    LET e == validateChangePassword(current, new)
        g == GetUserByUsername(ud, ud.users[userID].username)
        u == UpdateUserPassword(ud, userID, GenerateFromPassword(new))
    IN  IF e # NoErr THEN AuthResp(400, e, ud, NoToken, userID)
        ELSE IF g.err # NoErr
             THEN AuthResp(500, "Unable to verify current password", ud, NoToken, userID)
        ELSE IF ~CompareHashAndPassword(ud.users[g.id].password_hash, current)
             THEN AuthResp(401, "Current password is incorrect", ud, NoToken, userID)
        ELSE IF u.err # NoErr
             THEN AuthResp(500, "Failed to update password", ud, NoToken, userID)
        ELSE AuthResp(200, "Password updated successfully", u.udb, NoToken, userID)

\* UserHandler.UpdateCurrentUser for the user the middleware admitted
UpdateCurrentUser(ud, userID, username) ==
    LET v == validateUser(username)
        u == UpdateUser(ud, userID, v.username)
    IN  IF v.err # NoErr THEN AuthResp(400, v.err, ud, NoToken, userID)
        ELSE IF u.err = ErrNoUserMsg THEN AuthResp(404, "User not found", ud, NoToken, userID)
        ELSE IF u.err = ErrUsernameExistsMsg
             THEN AuthResp(409, "Username already exists", ud, NoToken, userID)
        ELSE AuthResp(200, "user", u.udb, NoToken, userID)

\* UserHandler.DeleteCurrentUser for the user the middleware admitted
DeleteCurrentUser(ud, userID) ==
    LET r == DeleteUser(ud, userID)
    IN  IF r.err = ErrNoUserMsg THEN AuthResp(404, "User not found", ud, NoToken, userID)
        ELSE AuthResp(204, "none", r.udb, NoToken, userID)

\* ON DELETE CASCADE / SET NULL of the rows that reference a deleted user
CascadeUser(d, userID) ==
    LET goneFolders == {f \in DOMAIN d.folders : d.folders[f].user_id = userID}
        goneSnippets == {s \in DOMAIN d.snippets : d.snippets[s].user_id = userID}
        goneTags == {g \in DOMAIN d.tags : d.tags[g].user_id = userID}
    IN  [d EXCEPT
           !.folders = [f \in DOMAIN d.folders \ goneFolders |->
                          IF d.folders[f].parent_id \in goneFolders
                          THEN [d.folders[f] EXCEPT !.parent_id = NULL]
                          ELSE d.folders[f]],
           !.snippets = [s \in DOMAIN d.snippets \ goneSnippets |->
                          IF d.snippets[s].folder_id \in goneFolders
                          THEN [d.snippets[s] EXCEPT !.folder_id = NULL]
                          ELSE d.snippets[s]],
           !.tags = [g \in DOMAIN d.tags \ goneTags |-> d.tags[g]],
           !.snippet_tags = {l \in d.snippet_tags :
                                l[1] \notin goneSnippets /\ l[2] \notin goneTags}]

\* ------------------------------------------------- accounts: the requests
\* the answer becomes the users table, the token is handed to the client
AuthCommit(op, caller, r, d) ==
    /\ users' = r.udb.users
    /\ nextUserID' = r.udb.nextUserID
    /\ tokens' = IF r.token = NoToken THEN tokens ELSE tokens \cup {r.token}
    /\ last' = [op |-> op, caller |-> caller, id |-> r.id, fail |-> 0,
                status |-> r.status, body |-> r.body]
    /\ folders' = d.folders
    /\ snippets' = d.snippets
    /\ tags' = d.tags
    /\ snippet_tags' = d.snippet_tags
    /\ UNCHANGED <<nextFolderID, nextSnippetID, nextTagID, inflight, now>>

\* a route behind RequireAuth: the middleware's 401, or the handler's answer
Protected(tk, r) ==
    LET a == RequireAuth(UDB, tk, now)
    IN  IF a.status # 200 THEN AuthResp(a.status, a.body, UDB, NoToken, 0) ELSE r

RegisterReq(username, password) ==
    AuthCommit("Register", 0, AuthHandlerRegister(UDB, now, username, password), DB)

LoginReq(username, password) ==
    AuthCommit("Login", 0, AuthHandlerLogin(UDB, now, username, password), DB)

MeReq(tk) ==
    AuthCommit("Me", tk.user_id, Protected(tk, AuthHandlerMe(UDB, tk.user_id)), DB)

ChangePasswordReq(tk, current, new) ==
    AuthCommit("ChangePassword", tk.user_id,
               Protected(tk, AuthHandlerChangePassword(UDB, tk.user_id, current, new)), DB)

UpdateCurrentUserReq(tk, username) ==
    AuthCommit("UpdateCurrentUser", tk.user_id,
               Protected(tk, UpdateCurrentUser(UDB, tk.user_id, username)), DB)

DeleteCurrentUserReq(tk) ==
    LET r == Protected(tk, DeleteCurrentUser(UDB, tk.user_id))
    IN  AuthCommit("DeleteCurrentUser", tk.user_id, r,
                   IF r.status = 204 THEN CascadeUser(DB, tk.user_id) ELSE DB)

\* the wall clock advances
Tick(step) ==
    /\ now' = now + step
    /\ UNCHANGED <<storeVars, last, inflight, users, nextUserID, tokens>>

\* ------------------------------------------ concurrent CreateFolder requests
\* Two connections run database.CreateFolder statement by statement.  Each
\* statement reads the committed rows (READ COMMITTED); the INSERT is checked
\* against UNIQUE(user_id, name, parent_id), under which rows with a NULL
\* parent_id never conflict, and waits while another open transaction holds
\* an uncommitted row with the same key.
Conns == {1, 2}
RaceParentIDs == {NULL, 1}
RaceBodies == FolderBodies({0}, {0}, {<<"a">>}, RaceParentIDs)

\* the key of UNIQUE(user_id, name, parent_id): NULL is distinct from NULL
UniqueKeyEqual(row, folder) ==
    /\ folder.parent_id # NULL
    /\ row.parent_id = folder.parent_id
    /\ row.user_id = folder.user_id
    /\ row.name = folder.name

\* the request ends: the connection is free and the response is recorded
Respond(conn, op, r) ==
    /\ inflight' = Remove(inflight, conn)
    /\ last' = [op |-> op, caller |-> inflight[conn].caller, id |-> r.id, fail |-> 0,
                status |-> r.status, body |-> r.body]

\* the handler up to pool.Begin
RaceBegin(conn, caller, body) ==
    LET v == validateFolder(SetUserID(body, caller))
    IN /\ conn \notin DOMAIN inflight
       /\ v.err = NoErr
       /\ inflight' = inflight @@ (conn :> [op |-> "CreateFolder", caller |-> caller,
                                            folder |-> v.folder, pc |-> "parent", id |-> 0])
       /\ UNCHANGED <<folders, snippets, tags, snippet_tags,
                      nextFolderID, nextSnippetID, nextTagID, last>>
       /\ UNCHANGED authVars

\* the parent lookup and walk
RaceParentCheck(conn) ==
    /\ conn \in DOMAIN inflight
    /\ inflight[conn].pc = "parent"
    /\ LET err == CreateFolderParentErr(DB, inflight[conn].folder, 0)
       IN IF err # NoErr
          THEN Respond(conn, "CreateFolder", CreateFolderError(err, DB))
          ELSE /\ inflight' = [inflight EXCEPT ![conn].pc = "name"]
               /\ UNCHANGED last
    /\ UNCHANGED <<folders, snippets, tags, snippet_tags,
                   nextFolderID, nextSnippetID, nextTagID>>
    /\ UNCHANGED authVars

\* the duplicate-name pre-check
RaceNameCheck(conn) ==
    /\ conn \in DOMAIN inflight
    /\ inflight[conn].pc = "name"
    /\ LET f == inflight[conn].folder
       IN IF NameCount(DB, f.user_id, f.name, f.parent_id, 0) > 0
          THEN Respond(conn, "CreateFolder", CreateFolderError(ErrDuplicateMsg, DB))
          ELSE /\ inflight' = [inflight EXCEPT ![conn].pc = "insert"]
               /\ UNCHANGED last
    /\ UNCHANGED <<folders, snippets, tags, snippet_tags,
                   nextFolderID, nextSnippetID, nextTagID>>
    /\ UNCHANGED authVars

\* the INSERT: it waits for an open transaction that holds the same key,
\* fails on a committed row with the same key, and otherwise takes the next
\* id of the sequence
RaceInsert(conn) ==
    /\ conn \in DOMAIN inflight
    /\ inflight[conn].pc = "insert"
    /\ LET f == inflight[conn].folder
       IN /\ ~\E other \in DOMAIN inflight \ {conn} :
                 /\ inflight[other].pc = "commit"
                 /\ UniqueKeyEqual(inflight[other].folder, f)
          /\ IF \E g \in DOMAIN folders : UniqueKeyEqual(folders[g], f)
             THEN /\ Respond(conn, "CreateFolder", CreateFolderError(ErrUniqueFolderMsg, DB))
                  /\ UNCHANGED nextFolderID
             ELSE /\ inflight' = [inflight EXCEPT ![conn].pc = "commit",
                                                 ![conn].id = nextFolderID]
                  /\ nextFolderID' = nextFolderID + 1
                  /\ UNCHANGED last
    /\ UNCHANGED <<folders, snippets, tags, snippet_tags, nextSnippetID, nextTagID>>
    /\ UNCHANGED authVars

\* tx.Commit: the row becomes visible, the handler answers 201
RaceCommit(conn) ==
    /\ conn \in DOMAIN inflight
    /\ inflight[conn].pc = "commit"
    /\ LET f == inflight[conn].folder
       IN folders' = folders @@ (inflight[conn].id :>
                        [user_id |-> f.user_id, name |-> f.name, parent_id |-> f.parent_id])
    /\ Respond(conn, "CreateFolder", Resp(201, "folder", DB, inflight[conn].id))
    /\ UNCHANGED <<snippets, tags, snippet_tags, nextFolderID, nextSnippetID, nextTagID>>
    /\ UNCHANGED authVars

NextRace ==
    \/ \E conn \in Conns, c \in Users, b \in RaceBodies :
           /\ nextFolderID + Cardinality(DOMAIN inflight) <= MaxFolders
           /\ RaceBegin(conn, c, b)
    \/ \E conn \in Conns : RaceParentCheck(conn)
    \/ \E conn \in Conns : RaceNameCheck(conn)
    \/ \E conn \in Conns : RaceInsert(conn)
    \/ \E conn \in Conns : RaceCommit(conn)

SpecRace == Init /\ [][NextRace]_vars

\* deep hierarchies: one user first nests DeepChain folders, each under the
\* folder created before it, and then creates, moves and deletes a few more
\* folders around the end of that chain
DeepFolderIDs == DeepChain..(DeepChain + MaxDeepExtra)
DeepBodies == FolderBodies({0}, {0}, {<<"a">>, <<"g">>}, {NULL} \cup DeepFolderIDs)
ChainBody == [id |-> 0, user_id |-> 0, name |-> <<"a">>,
              parent_id |-> IF nextFolderID = 1 THEN NULL ELSE nextFolderID - 1]

NextDepth ==
    \/ /\ nextFolderID <= DeepChain
       /\ CreateFolderReq(1, ChainBody, 0)
    \/ \E b \in DeepBodies :
           /\ nextFolderID > DeepChain
           /\ nextFolderID <= DeepChain + MaxDeepExtra
           /\ CreateFolderReq(1, b, 0)
    \/ \E f \in DeepFolderIDs, b \in DeepBodies :
           /\ nextFolderID > DeepChain
           /\ UpdateFolderReq(1, f, b, 0)
    \/ \E f \in DeepFolderIDs :
           /\ nextFolderID > DeepChain
           /\ DeleteFolderReq(1, f, 0)

SpecDepth == Init /\ [][NextDepth]_vars

\* ------------------------------------------- the lifetime of a token
Bob == <<"b", "o", "b">>
Ann == <<"a", "n", "n">>

GoodPassword == <<"A", "a", "1", "!", "a", "a", "a", "a", "a", "a", "a", "a">>
OtherPassword == <<"G", "o", "9", "?", "o", "o", "o", "o", "o", "o", "o", "o">>

\* the clock is followed until the leeway after the last expiry has passed
MaxClock == MaxIssueTime + TokenTTL + 2 * Leeway

\* Tokens are issued in the first half seconds; the clock then advances by
\* the leeway, and by half seconds at the start of each such period.
NextToken ==
    \/ /\ now <= MaxIssueTime
       /\ RegisterReq(Bob, GoodPassword)
    \/ \E p \in {GoodPassword, OtherPassword} :
           /\ now <= MaxIssueTime
           /\ LoginReq(Bob, p)
    \/ \E tk \in tokens : MeReq(tk)
    \/ /\ now % Leeway < ClockWindow
       /\ Tick(1)
    \/ /\ now + Leeway <= MaxClock
       /\ Tick(Leeway)

SpecToken == Init /\ [][NextToken]_vars

\* ------------------------------------------------ accounts and sessions
Guy == <<"g", "u", "y">>

\* usernames of registrations and logins, and the usernames of renames: one
\* of them too short for validateUser
AuthUsernames == {Bob, Ann}
RenameUsernames == {Bob, Ann, Guy, <<"a", "b">>}
AuthPasswords == {GoodPassword, OtherPassword}

NextAuth ==
    \/ \E u \in AuthUsernames :
           /\ nextUserID <= MaxAccounts
           /\ RegisterReq(u, GoodPassword)
    \/ \E u \in AuthUsernames \cup {Guy}, p \in AuthPasswords : LoginReq(u, p)
    \/ \E tk \in tokens : MeReq(tk)
    \/ \E tk \in tokens, u \in RenameUsernames : UpdateCurrentUserReq(tk, u)
    \/ \E tk \in tokens : DeleteCurrentUserReq(tk)

SpecAuth == Init /\ [][NextAuth]_vars

\* ------------------------------------------------- the password policy
\* the start of a password: all four classes, or some of them missing
PasswordCores == {<<>>, <<"A", "a", "1", "!">>, <<"a", "1", "!">>, <<"A", "1", "!">>,
                  <<"A", "a", "!">>, <<"A", "a", "1">>, <<"A", "a">>, <<"1">>}

\* the character the rest of a password repeats: a letter, a two-byte
\* character, a space, an ASCII character outside every class
PasswordFillers == {"a", "e-acute", " ", "~"}

\* n times the character c
RECURSIVE Pad(_, _)
Pad(c, n) == IF n = 0 THEN <<>> ELSE <<c>> \o Pad(c, n - 1)

PasswordInputs ==
    {core \o Pad(c, n) : core \in PasswordCores, c \in PasswordFillers, n \in 0..MaxPad}

\* the password a stored hash was made from
PasswordOf(row) == Tail(row.password_hash)

NextPassword ==
    \/ \E p \in PasswordInputs : RegisterReq(Bob, p)
    \/ \E tk \in tokens : MeReq(tk)
    \/ \E tk \in tokens, new \in PasswordInputs :
           \E current \in {GoodPassword} \cup {PasswordOf(users[u]) : u \in DOMAIN users} :
               ChangePasswordReq(tk, current, new)

SpecPassword == Init /\ [][NextPassword]_vars

\* ------------------------------------------ concurrent registrations
\* Two connections run Register statement by statement. The pool runs each
\* statement of CreateUserWithPassword in its own transaction, so a statement
\* sees every row inserted before it.
RaceUsernames == {Bob, Ann}

\* an insert error that is reported as a database error whatever it says
InsertUserErrorUntranslated(dbErr) == ErrDbMsg

\* CreateUserWithPassword: the error it returns when the INSERT fails
InsertUserError(dbErr) ==
    IF Contains(dbErr, "duplicate key value violates unique constraint")
    THEN ErrUsernameExistsMsg
    ELSE ErrDbMsg

\* the handler up to the call of CreateUserWithPassword
RegBegin(conn, username, password) ==
    /\ conn \notin DOMAIN inflight
    /\ validateRegistration(username, password) = NoErr
    /\ inflight' = inflight @@ (conn :> [op |-> "Register", caller |-> 0,
                                         username |-> username,
                                         hash |-> GenerateFromPassword(password),
                                         pc |-> "check"])
    /\ UNCHANGED <<storeVars, last, authVars>>

\* SELECT COUNT(*) FROM users WHERE username = $1
RegCheck(conn) ==
    /\ conn \in DOMAIN inflight
    /\ inflight[conn].pc = "check"
    /\ IF UsernameCount(UDB, inflight[conn].username, 0) > 0
       THEN Respond(conn, "Register", RegisterError(ErrUsernameExistsMsg, UDB))
       ELSE /\ inflight' = [inflight EXCEPT ![conn].pc = "insert"]
            /\ UNCHANGED last
    /\ UNCHANGED <<storeVars, authVars>>

\* INSERT INTO users: the UNIQUE constraint on username refuses a second row;
\* the id drawn from the sequence is spent either way
RegInsert(conn) ==
    /\ conn \in DOMAIN inflight
    /\ inflight[conn].pc = "insert"
    /\ LET r == inflight[conn]
       IN  IF UsernameCount(UDB, r.username, 0) > 0
           THEN /\ Respond(conn, "Register",
                           RegisterError(InsertUserError(ErrUniqueUserMsg), UDB))
                /\ nextUserID' = nextUserID + 1
                /\ UNCHANGED <<users, tokens>>
           ELSE /\ users' = SqlInsertUser(UDB, r.username, r.hash).users
                /\ nextUserID' = nextUserID + 1
                /\ tokens' = tokens \cup {GenerateToken(nextUserID, r.username, now)}
                /\ Respond(conn, "Register",
                           AuthResp(201, "token and user", UDB, NoToken, nextUserID))
    /\ UNCHANGED <<storeVars, now>>

NextRegister ==
    \/ \E conn \in Conns, u \in RaceUsernames :
           /\ nextUserID + Cardinality(DOMAIN inflight) <= MaxRegistrations
           /\ RegBegin(conn, u, GoodPassword)
    \/ \E conn \in Conns : RegCheck(conn)
    \/ \E conn \in Conns : RegInsert(conn)

SpecRegister == Init /\ [][NextRegister]_vars

\* ------------------------------------------------- tag lists of a snippet
\* tag lists as requests may carry them: the same name in three spellings,
\* another name with a leading space
NormInputs == {<<"G", "o">>, <<"g", "o">>, <<"G", "O", " ">>, <<" ", "p", "y">>}
NormLists == UNION {[1..n -> NormInputs] : n \in 0..MaxNormList}
NormBodies == SnippetBodies({0}, {NULL}, {<<"t">>},
                            {[present |-> TRUE, list |-> l] : l \in NormLists})

\* one user creates snippets with such tag lists, replaces the lists and
\* deletes the snippets
NextNorm ==
    \/ \E b \in NormBodies : CreateSnippetReq(1, b, 0)
    \/ \E s \in SnippetPathIDs, b \in NormBodies : UpdateSnippetReq(1, s, b, 0)
    \/ \E s \in SnippetPathIDs : DeleteSnippetReq(1, s, 0)

SpecNorm == Init /\ [][NextNorm]_vars

\* ------------------------------------------------------------ list requests
\* strconv.Atoi on a query parameter: an optional sign, then decimal digits
DecimalDigits == <<"0", "1", "2", "3", "4", "5", "6", "7", "8", "9">>

DigitValue(c) == (CHOOSE i \in 1..Len(DecimalDigits) : DecimalDigits[i] = c) - 1

IsDigit(c) == \E i \in 1..Len(DecimalDigits) : DecimalDigits[i] = c

RECURSIVE DecimalValue(_)
DecimalValue(s) ==
    IF s = <<>> THEN 0
    ELSE DecimalValue(SubSeq(s, 1, Len(s) - 1)) * 10 + DigitValue(s[Len(s)])

Atoi(s) ==
    LET signed == s # <<>> /\ s[1] \in {"-", "+"}
        digits == IF signed THEN Tail(s) ELSE s
        ok == digits # <<>> /\ \A i \in 1..Len(digits) : IsDigit(digits[i])
    IN [ok |-> ok,
        val |-> IF ~ok THEN 0
                ELSE IF signed /\ s[1] = "-" THEN 0 - DecimalValue(digits)
                ELSE DecimalValue(digits)]

DefaultLimit == 20
MaxLimit == 100

PageParam(pageStr) ==
    IF pageStr # <<>> /\ Atoi(pageStr).ok /\ Atoi(pageStr).val > 0
    THEN Atoi(pageStr).val ELSE 1

LimitParam(limitStr) ==
    IF limitStr # <<>> /\ Atoi(limitStr).ok /\ Atoi(limitStr).val > 0
       /\ Atoi(limitStr).val <= MaxLimit
    THEN Atoi(limitStr).val ELSE DefaultLimit

\* the envelope's arithmetic; / is Go's truncating division of a non-negative
\* numerator
PaginationFloor(page, limit, total) ==
    [page |-> page, limit |-> limit, total |-> total,
     total_pages |-> total \div limit,
     has_next |-> page < total \div limit,
     has_prev |-> page > 1]

Pagination(page, limit, total) ==
    [page |-> page, limit |-> limit, total |-> total,
     total_pages |-> (total + limit - 1) \div limit,
     has_next |-> page < (total + limit - 1) \div limit,
     has_prev |-> page > 1]

NoPagination == [page |-> 0, limit |-> 0, total |-> 0, total_pages |-> 0,
                 has_next |-> FALSE, has_prev |-> FALSE]

\* the number of rows LIMIT limit OFFSET offset returns out of total
RowsOfPage(total, limit, offset) ==
    IF total - offset <= 0 THEN 0
    ELSE IF total - offset < limit THEN total - offset ELSE limit

\* COUNT(*) and the page of rows; the rows' order (name, created_at) is not
\* modelled, only how many come back
DbGetFolders(d, page, limit, userID, parentID) ==
    LET total == Cardinality({f \in DOMAIN d.folders :
                     /\ d.folders[f].user_id = userID
                     /\ d.folders[f].parent_id = parentID})
    IN [total |-> total, rows |-> RowsOfPage(total, limit, (page - 1) * limit)]

DbGetSnippets(d, page, limit, userID) ==
    LET total == Cardinality({s \in DOMAIN d.snippets : d.snippets[s].user_id = userID})
    IN [total |-> total, rows |-> RowsOfPage(total, limit, (page - 1) * limit)]

ListResp(status, body, pagination, rows) ==
    [status |-> status, body |-> body, pagination |-> pagination, rows |-> rows]

FolderHandlerGetFolders(d, caller, pageStr, limitStr, parentIDStr) ==
    LET page == PageParam(pageStr)
        limit == LimitParam(limitStr)
        parentID == IF parentIDStr = <<>> THEN NULL ELSE Atoi(parentIDStr).val
        g == DbGetFolders(d, page, limit, caller, parentID)
    IN IF parentIDStr # <<>> /\ ~Atoi(parentIDStr).ok
       THEN ListResp(400, "Invalid parent_id parameter", NoPagination, 0)
       ELSE ListResp(200, "", Pagination(page, limit, g.total), g.rows)

SnippetHandlerGetSnippets(d, caller, pageStr, limitStr) ==
    LET page == PageParam(pageStr)
        limit == LimitParam(limitStr)
        g == DbGetSnippets(d, page, limit, caller)
    IN ListResp(200, "", Pagination(page, limit, g.total), g.rows)

\* a list request reads the store and answers with the pagination envelope
ListCommit(op, caller, r) ==
    /\ last' = [op |-> op, caller |-> caller, id |-> 0, fail |-> 0,
                status |-> r.status, body |-> r.body,
                pagination |-> r.pagination, rows |-> r.rows]
    /\ UNCHANGED storeVars
    /\ UNCHANGED inflight
    /\ UNCHANGED authVars

GetFoldersReq(caller, pageStr, limitStr, parentIDStr) ==
    ListCommit("GetFolders", caller,
               FolderHandlerGetFolders(DB, caller, pageStr, limitStr, parentIDStr))

GetSnippetsReq(caller, pageStr, limitStr) ==
    ListCommit("GetSnippets", caller,
               SnippetHandlerGetSnippets(DB, caller, pageStr, limitStr))

\* listing: a few root folders of one user and snippets of both, then pages of
\* them for either user
MaxListed == 3
MaxListedSnippets == 2
PageInputs == {<<>>, <<"0">>, <<"2">>, <<"3">>, <<"x">>}
LimitInputs == {<<>>, <<"0">>, <<"1">>, <<"2">>, <<"1", "0", "0">>, <<"1", "0", "1">>}
ParentInputs == {<<>>, <<"1">>, <<"x">>}

NextList ==
    \/ \E b \in FolderBodies({0}, {0}, {<<"a">>, <<"g">>, <<"o">>}, {NULL}) :
           /\ nextFolderID <= MaxListed
           /\ CreateFolderReq(1, b, 0)
    \/ \E c \in Users, b \in SnippetBodies({0}, {NULL}, {<<"t">>}, {NoTags}) :
           /\ nextSnippetID <= MaxListedSnippets
           /\ Commit("CreateSnippet", c, 0, SnippetHandlerCreateSnippet(DB, c, b, 0))
    \/ \E c \in Users, p \in PageInputs, l \in LimitInputs, q \in ParentInputs :
           GetFoldersReq(c, p, l, q)
    \/ \E c \in Users, p \in PageInputs, l \in LimitInputs : GetSnippetsReq(c, p, l)

SpecList == Init /\ [][NextList]_vars

\* ------------------------------------------------------- the work of a login
\* the costly steps AuthHandler.Login runs for a request, in order: the store
\* lookup, the bcrypt comparison, the 100 ms sleep, the token signature
LoginWork(ud, username, password) ==
    LET e == validateLogin(username, password)
        g == GetUserByUsername(ud, username)
    IN  IF e # NoErr THEN <<>>
        ELSE IF g.err # NoErr THEN <<"GetUserByUsername", "Sleep">>
        ELSE IF ~CompareHashAndPassword(ud.users[g.id].password_hash, password)
             THEN <<"GetUserByUsername", "CompareHashAndPassword", "Sleep">>
        ELSE <<"GetUserByUsername", "CompareHashAndPassword", "GenerateToken">>

\* ---------------------------- concurrent UpdateFolder and DeleteFolder requests
\* Two connections run database.UpdateFolder and database.DeleteFolder
\* statement by statement while CreateFolder requests run in between.  Every
\* SELECT reads the committed rows (READ COMMITTED).  An UPDATE or DELETE
\* locks its row until the transaction ends; it waits for a lock another open
\* transaction holds.  An UPDATE that changes parent_id holds a key-share lock
\* on the new parent, which a DELETE of that parent waits for; the DELETE
\* resets the parent_id of the rows that reference the deleted one
\* (ON DELETE SET NULL) and so locks them too.
MaxMoved == 2
MoveParentIDs == {NULL} \cup (1..MaxMoved)

Pending(other) == inflight[other].pc = "commit"

\* another open transaction holds the lock of row f
RowLockedByOther(conn, f) ==
    \E other \in DOMAIN inflight \ {conn} :
        /\ Pending(other)
        /\ \/ inflight[other].id = f
           \/ /\ inflight[other].op = "DeleteFolder"
              /\ f \in DOMAIN folders
              /\ folders[f].parent_id = inflight[other].id

\* another open transaction made row p the parent of the row it updated
KeySharedByOther(conn, p) ==
    \E other \in DOMAIN inflight \ {conn} :
        /\ Pending(other)
        /\ inflight[other].op = "UpdateFolder"
        /\ inflight[other].lock = p

\* another open transaction deleted row p
DeletedByOther(conn, p) ==
    \E other \in DOMAIN inflight \ {conn} :
        /\ Pending(other)
        /\ inflight[other].op = "DeleteFolder"
        /\ inflight[other].id = p

\* the handler of PUT /folders/{id} up to pool.Begin, for a body that keeps
\* the folder's name and names a parent
MoveBegin(conn, caller, folderID, parentID) ==
    LET g == DbGetFolder(DB, folderID)
        v == validateFolder(SetUserID([id |-> 0, user_id |-> 0, name |-> g.row.name,
                                       parent_id |-> parentID], caller))
    IN /\ conn \notin DOMAIN inflight
       /\ g.err = NoErr
       /\ g.row.user_id = caller
       /\ v.err = NoErr
       /\ inflight' = inflight @@ (conn :> [op |-> "UpdateFolder", caller |-> caller,
                                            folder |-> v.folder, pc |-> "current",
                                            id |-> folderID, current |-> NULL,
                                            lock |-> NULL])
       /\ UNCHANGED <<storeVars, last>>
       /\ UNCHANGED authVars

\* SELECT user_id, parent_id FROM folders WHERE id = $1
MoveCurrent(conn) ==
    /\ conn \in DOMAIN inflight
    /\ inflight[conn].op = "UpdateFolder"
    /\ inflight[conn].pc = "current"
    /\ IF inflight[conn].id \notin DOMAIN folders
       THEN Respond(conn, "UpdateFolder",
                    UpdateFolderError(ErrNoFolderMsg, DB, inflight[conn].id))
       ELSE /\ inflight' = [inflight EXCEPT
                               ![conn].pc = "parent",
                               ![conn].current = folders[inflight[conn].id].parent_id]
            /\ UNCHANGED last
    /\ UNCHANGED storeVars
    /\ UNCHANGED authVars

\* the parent lookup, the self-parent test and the walk, against the parent
\* the first statement read
MoveParentErr(d, folderID, folder, current) ==
    IF folder.parent_id = NULL THEN NoErr
    ELSE IF folder.parent_id \notin DOMAIN d.folders THEN ErrParentMissingMsg
    ELSE IF d.folders[folder.parent_id].user_id # folder.user_id THEN ErrParentForeignMsg
    ELSE IF folder.parent_id = folderID THEN ErrOwnParentMsg
    ELSE IF current # NULL /\ current = folder.parent_id THEN NoErr
    ELSE LET e == checkCircularReferenceForUpdate(d, folder.user_id, folderID,
                                                  folder.parent_id, 0)
         IN IF e # NoErr THEN WrapCircular(e) ELSE NoErr

MoveParentCheck(conn) ==
    /\ conn \in DOMAIN inflight
    /\ inflight[conn].op = "UpdateFolder"
    /\ inflight[conn].pc = "parent"
    /\ LET err == MoveParentErr(DB, inflight[conn].id, inflight[conn].folder,
                                inflight[conn].current)
       IN IF err # NoErr
          THEN Respond(conn, "UpdateFolder", UpdateFolderError(err, DB, inflight[conn].id))
          ELSE /\ inflight' = [inflight EXCEPT ![conn].pc = "name"]
               /\ UNCHANGED last
    /\ UNCHANGED storeVars
    /\ UNCHANGED authVars

\* the duplicate-name pre-check of UpdateFolder
MoveNameCheck(conn) ==
    /\ conn \in DOMAIN inflight
    /\ inflight[conn].op = "UpdateFolder"
    /\ inflight[conn].pc = "name"
    /\ LET f == inflight[conn].folder
       IN IF NameCount(DB, f.user_id, f.name, f.parent_id, inflight[conn].id) > 0
          THEN Respond(conn, "UpdateFolder",
                       UpdateFolderError(ErrDuplicateMsg, DB, inflight[conn].id))
          ELSE /\ inflight' = [inflight EXCEPT ![conn].pc = "update"]
               /\ UNCHANGED last
    /\ UNCHANGED storeVars
    /\ UNCHANGED authVars

\* the UPDATE: no row, a key of UNIQUE(user_id, name, parent_id) that a
\* committed row holds, or a parent that is gone fails it
MoveUpdate(conn) ==
    /\ conn \in DOMAIN inflight
    /\ inflight[conn].op = "UpdateFolder"
    /\ inflight[conn].pc = "update"
    /\ LET f == inflight[conn].folder
           id == inflight[conn].id
           reparented == id \in DOMAIN folders /\ f.parent_id # NULL
                         /\ folders[id].parent_id # f.parent_id
       IN /\ ~RowLockedByOther(conn, id)
          /\ reparented => ~DeletedByOther(conn, f.parent_id)
          /\ ~\E other \in DOMAIN inflight \ {conn} :
                 /\ Pending(other)
                 /\ inflight[other].op = "UpdateFolder"
                 /\ UniqueKeyEqual(inflight[other].folder, f)
          /\ IF id \notin DOMAIN folders
             THEN Respond(conn, "UpdateFolder", UpdateFolderError(ErrNoFolderMsg, DB, id))
             ELSE IF \/ \E g \in DOMAIN folders \ {id} : UniqueKeyEqual(folders[g], f)
                     \/ reparented /\ f.parent_id \notin DOMAIN folders
             THEN Respond(conn, "UpdateFolder", UpdateFolderError(ErrDbMsg, DB, id))
             ELSE /\ inflight' = [inflight EXCEPT
                                     ![conn].pc = "commit",
                                     ![conn].lock = IF reparented THEN f.parent_id ELSE NULL]
                  /\ UNCHANGED last
    /\ UNCHANGED storeVars
    /\ UNCHANGED authVars

\* tx.Commit of UpdateFolder: the new name and parent become visible
MoveCommit(conn) ==
    /\ conn \in DOMAIN inflight
    /\ inflight[conn].op = "UpdateFolder"
    /\ inflight[conn].pc = "commit"
    /\ folders' = [folders EXCEPT
                      ![inflight[conn].id].name = inflight[conn].folder.name,
                      ![inflight[conn].id].parent_id = inflight[conn].folder.parent_id]
    /\ Respond(conn, "UpdateFolder", Resp(200, "folder", DB, inflight[conn].id))
    /\ UNCHANGED <<snippets, tags, snippet_tags, nextFolderID, nextSnippetID, nextTagID>>
    /\ UNCHANGED authVars

\* the handler of DELETE /folders/{id} up to pool.Begin
RemoveBegin(conn, caller, folderID) ==
    LET g == DbGetFolder(DB, folderID)
    IN /\ conn \notin DOMAIN inflight
       /\ g.err = NoErr
       /\ g.row.user_id = caller
       /\ inflight' = inflight @@ (conn :> [op |-> "DeleteFolder", caller |-> caller,
                                            folder |-> g.row, pc |-> "exists",
                                            id |-> folderID, current |-> NULL,
                                            lock |-> NULL])
       /\ UNCHANGED <<storeVars, last>>
       /\ UNCHANGED authVars

\* the existence check, then the child count, then the snippet count
RemoveCheck(conn) ==
    /\ conn \in DOMAIN inflight
    /\ inflight[conn].op = "DeleteFolder"
    /\ LET id == inflight[conn].id
       IN \/ /\ inflight[conn].pc = "exists"
             /\ IF id \notin DOMAIN folders
                THEN Respond(conn, "DeleteFolder", DeleteFolderError(ErrNoFolderMsg, DB, id))
                ELSE /\ inflight' = [inflight EXCEPT ![conn].pc = "children"]
                     /\ UNCHANGED last
          \/ /\ inflight[conn].pc = "children"
             /\ IF ChildCount(DB, id) > 0
                THEN Respond(conn, "DeleteFolder",
                             DeleteFolderError(ErrHasChildrenMsg, DB, id))
                ELSE /\ inflight' = [inflight EXCEPT ![conn].pc = "snippets"]
                     /\ UNCHANGED last
          \/ /\ inflight[conn].pc = "snippets"
             /\ inflight' = [inflight EXCEPT ![conn].pc = "delete"]
             /\ UNCHANGED last
    /\ UNCHANGED storeVars
    /\ UNCHANGED authVars

\* the DELETE: it takes the row and the rows that reference it
RemoveDelete(conn) ==
    /\ conn \in DOMAIN inflight
    /\ inflight[conn].op = "DeleteFolder"
    /\ inflight[conn].pc = "delete"
    /\ LET id == inflight[conn].id
       IN /\ ~RowLockedByOther(conn, id)
          /\ ~KeySharedByOther(conn, id)
          /\ \A c \in DOMAIN folders :
                 folders[c].parent_id = id => ~RowLockedByOther(conn, c)
          /\ IF id \notin DOMAIN folders
             THEN Respond(conn, "DeleteFolder", DeleteFolderError(ErrNoFolderMsg, DB, id))
             ELSE /\ inflight' = [inflight EXCEPT ![conn].pc = "commit"]
                  /\ UNCHANGED last
    /\ UNCHANGED storeVars
    /\ UNCHANGED authVars

\* tx.Commit of DeleteFolder: the row is gone, its snippets are at the root
\* and the rows that referenced it have no parent
RemoveCommit(conn) ==
    /\ conn \in DOMAIN inflight
    /\ inflight[conn].op = "DeleteFolder"
    /\ inflight[conn].pc = "commit"
    /\ LET tx == SqlDeleteFolder(SqlMoveSnippetsToRoot(DB, inflight[conn].id),
                                 inflight[conn].id)
       IN /\ folders' = tx.folders
          /\ snippets' = tx.snippets
          /\ Respond(conn, "DeleteFolder", Resp(204, "", tx, inflight[conn].id))
    /\ UNCHANGED <<tags, snippet_tags, nextFolderID, nextSnippetID, nextTagID>>
    /\ UNCHANGED authVars

\* CreateFolder requests run as whole transactions between the statements of
\* the two connections; an INSERT under a parent that an open transaction
\* deleted would wait
NextMove ==
    \/ \E b \in FolderBodies({0}, {0}, {<<"a">>, <<"g">>}, MoveParentIDs) :
           /\ nextFolderID <= MaxMoved
           /\ b.parent_id # NULL => ~DeletedByOther(0, b.parent_id)
           /\ \A other \in DOMAIN inflight :
                  Pending(other) /\ inflight[other].op = "UpdateFolder"
                  => ~UniqueKeyEqual(inflight[other].folder, SetUserID(b, 1))
           /\ Commit("CreateFolder", 1, 0, FolderHandlerCreateFolder(DB, 1, b, 0))
    \/ \E conn \in Conns, f \in 1..MaxMoved, p \in MoveParentIDs : MoveBegin(conn, 1, f, p)
    \/ \E conn \in Conns : MoveCurrent(conn)
    \/ \E conn \in Conns : MoveParentCheck(conn)
    \/ \E conn \in Conns : MoveNameCheck(conn)
    \/ \E conn \in Conns : MoveUpdate(conn)
    \/ \E conn \in Conns : MoveCommit(conn)
    \/ \E conn \in Conns, f \in 1..MaxMoved : RemoveBegin(conn, 1, f)
    \/ \E conn \in Conns : RemoveCheck(conn)
    \/ \E conn \in Conns : RemoveDelete(conn)
    \/ \E conn \in Conns : RemoveCommit(conn)

SpecMove == Init /\ [][NextMove]_vars

\* ------------------------------------------ concurrent CreateSnippet requests
\* Two connections run database.CreateSnippet statement by statement.  A
\* transaction sees the committed rows and its own; the INSERT into tags is
\* checked against UNIQUE(user_id, name): it waits while another open
\* transaction holds an uncommitted row with the same key and fails on a
\* committed one.
MaxRaceSnippets == 2
RaceTagLists == {<<<<"G", "o">>>>, <<<<"p", "y">>, <<"G", "o">>>>}
RaceSnippetBodies ==
    SnippetBodies({0}, {NULL}, {<<"t">>}, {[present |-> TRUE, list |-> l] : l \in RaceTagLists})

ErrCreateTagMsg == "failed to insert snippet tags: failed to create tag: ERROR: duplicate key value violates unique constraint (SQLSTATE 23505)"

\* the tag rows a transaction sees: the committed ones and its own
TagsSeen(conn) == tags @@ inflight[conn].newTags

\* the handler of POST /snippets up to pool.Begin
TagRaceBegin(conn, caller, body) ==
    LET v == validateSnippet(SetUserID(body, caller))
    IN /\ conn \notin DOMAIN inflight
       /\ v.err = NoErr
       /\ inflight' = inflight @@ (conn :> [op |-> "CreateSnippet", caller |-> caller,
                                            snippet |-> v.snippet, pc |-> "insert",
                                            id |-> 0, i |-> 1, tagID |-> 0,
                                            newTags |-> EmptyTable, links |-> {}])
       /\ UNCHANGED <<storeVars, last>>
       /\ UNCHANGED authVars

\* INSERT INTO snippets ... RETURNING id
TagRaceInsertSnippet(conn) ==
    /\ conn \in DOMAIN inflight
    /\ inflight[conn].op = "CreateSnippet"
    /\ inflight[conn].pc = "insert"
    /\ inflight' = [inflight EXCEPT
                       ![conn].id = nextSnippetID,
                       ![conn].pc = IF inflight[conn].snippet.tags.present
                                       /\ Len(inflight[conn].snippet.tags.list) > 0
                                    THEN "select" ELSE "commit"]
    /\ nextSnippetID' = nextSnippetID + 1
    /\ UNCHANGED <<folders, snippets, tags, snippet_tags, nextFolderID, nextTagID, last>>
    /\ UNCHANGED authVars

\* insertSnippetTags: SELECT id FROM tags WHERE user_id = $1 AND name = $2
TagRaceSelect(conn) ==
    /\ conn \in DOMAIN inflight
    /\ inflight[conn].op = "CreateSnippet"
    /\ inflight[conn].pc = "select"
    /\ LET tagName == TrimSpace(inflight[conn].snippet.tags.list[inflight[conn].i])
           seen == [DB EXCEPT !.tags = TagsSeen(conn)]
           tagID == TagIDOf(seen, inflight[conn].caller, tagName)
       IN inflight' = [inflight EXCEPT
                          ![conn].tagID = tagID,
                          ![conn].pc = IF tagID # 0 THEN "link" ELSE "tag"]
    /\ UNCHANGED <<storeVars, last>>
    /\ UNCHANGED authVars

\* insertSnippetTags: INSERT INTO tags ... RETURNING id; the id of the
\* sequence is spent either way, and an error ends the request with the
\* transaction rolled back
TagRaceInsertTag(conn) ==
    /\ conn \in DOMAIN inflight
    /\ inflight[conn].op = "CreateSnippet"
    /\ inflight[conn].pc = "tag"
    /\ LET tagName == TrimSpace(inflight[conn].snippet.tags.list[inflight[conn].i])
           caller == inflight[conn].caller
       IN /\ ~\E other \in DOMAIN inflight \ {conn} :
                 \E t \in DOMAIN inflight[other].newTags :
                     inflight[other].newTags[t] = [user_id |-> caller, name |-> tagName]
          /\ nextTagID' = nextTagID + 1
          /\ IF TagIDOf(DB, caller, tagName) # 0
             THEN Respond(conn, "CreateSnippet",
                          IF ErrorsIs(ErrCreateTagMsg, "ErrDatabaseError")
                          THEN Resp(500, "Unable to process request at this time", DB, 0)
                          ELSE Resp(500, "An unexpected error occurred", DB, 0))
             ELSE /\ inflight' = [inflight EXCEPT
                                     ![conn].tagID = nextTagID,
                                     ![conn].newTags = @ @@ (nextTagID :>
                                         [user_id |-> caller, name |-> tagName]),
                                     ![conn].pc = "link"]
                  /\ UNCHANGED last
    /\ UNCHANGED <<folders, snippets, tags, snippet_tags, nextFolderID, nextSnippetID>>
    /\ UNCHANGED authVars

\* insertSnippetTags: INSERT INTO snippet_tags ... ON CONFLICT DO NOTHING,
\* then the next name of the list
TagRaceLink(conn) ==
    /\ conn \in DOMAIN inflight
    /\ inflight[conn].op = "CreateSnippet"
    /\ inflight[conn].pc = "link"
    /\ inflight' = [inflight EXCEPT
                       ![conn].links = @ \cup {inflight[conn].tagID},
                       ![conn].i = @ + 1,
                       ![conn].pc = IF inflight[conn].i < Len(inflight[conn].snippet.tags.list)
                                    THEN "select" ELSE "commit"]
    /\ UNCHANGED <<storeVars, last>>
    /\ UNCHANGED authVars

\* tx.Commit: the snippet, its new tags and its links become visible
TagRaceCommit(conn) ==
    /\ conn \in DOMAIN inflight
    /\ inflight[conn].op = "CreateSnippet"
    /\ inflight[conn].pc = "commit"
    /\ LET s == inflight[conn].snippet
           id == inflight[conn].id
       IN /\ snippets' = snippets @@ (id :> [user_id |-> s.user_id,
                                             folder_id |-> s.folder_id, title |-> s.title])
          /\ tags' = tags @@ inflight[conn].newTags
          /\ snippet_tags' = snippet_tags \cup {<<id, t>> : t \in inflight[conn].links}
          /\ Respond(conn, "CreateSnippet", Resp(201, "snippet", DB, id))
    /\ UNCHANGED <<folders, nextFolderID, nextSnippetID, nextTagID>>
    /\ UNCHANGED authVars

NextTagRace ==
    \/ \E conn \in Conns, c \in Users, b \in RaceSnippetBodies :
           /\ nextSnippetID + Cardinality(DOMAIN inflight) <= MaxRaceSnippets
           /\ TagRaceBegin(conn, c, b)
    \/ \E conn \in Conns : TagRaceInsertSnippet(conn)
    \/ \E conn \in Conns : TagRaceSelect(conn)
    \/ \E conn \in Conns : TagRaceInsertTag(conn)
    \/ \E conn \in Conns : TagRaceLink(conn)
    \/ \E conn \in Conns : TagRaceCommit(conn)

SpecTagRace == Init /\ [][NextTagRace]_vars

\* updates with and without a tags field: a body that carries tags has the
\* title "t", a body without the field has the title "u"
KeepTagLists == {<<>>, <<<<"G", "o">>>>, <<<<"G", "o">>, <<"p", "y">>>>}
TaggedBodies ==
    SnippetBodies({0}, {NULL}, {<<"t">>}, {[present |-> TRUE, list |-> l] : l \in KeepTagLists})
UntaggedBodies == SnippetBodies({0}, {NULL}, {<<"u">>}, {NoTags})

NextKeep ==
    \/ \E c \in Users, b \in TaggedBodies : CreateSnippetReq(c, b, 0)
    \/ \E c \in Users, s \in SnippetPathIDs, b \in TaggedBodies :
           UpdateSnippetReq(c, s, b, 0)
    \/ \E c \in Users, s \in SnippetPathIDs, b \in UntaggedBodies :
           UpdateSnippetReq(c, s, b, 0)
    \/ \E c \in Users, s \in SnippetPathIDs : DeleteSnippetReq(c, s, 0)

SpecKeep == Init /\ [][NextKeep]_vars

\* the parent validation of UpdateFolder with needsCircularCheck always true
UpdateFolderParentErrAlwaysWalk(d, folderID, folder) ==
    IF folder.parent_id = NULL THEN NoErr
    ELSE IF folder.parent_id \notin DOMAIN d.folders THEN ErrParentMissingMsg
    ELSE IF d.folders[folder.parent_id].user_id # folder.user_id THEN ErrParentForeignMsg
    ELSE IF folder.parent_id = folderID THEN ErrOwnParentMsg
    ELSE LET e == checkCircularReferenceForUpdate(d, folder.user_id, folderID,
                                                  folder.parent_id, 0)
         IN IF e # NoErr THEN WrapCircular(e) ELSE NoErr

\* ------------------------------------------------- the walks on any graph
\* the number of calls of checkCircularReference, the first one included
RECURSIVE checkCircularReferenceCalls(_, _, _, _)
checkCircularReferenceCalls(d, userID, parentID, depth) ==
    IF CircularReferenceStep(d, userID, parentID, depth) = "recurse"
    THEN 1 + checkCircularReferenceCalls(d, userID, d.folders[parentID].parent_id, depth + 1)
    ELSE 1

\* the number of calls of checkCircularReferenceForUpdate
RECURSIVE checkCircularReferenceForUpdateCalls(_, _, _, _, _)
checkCircularReferenceForUpdateCalls(d, userID, folderID, newParentID, depth) ==
    IF CircularReferenceForUpdateStep(d, userID, folderID, newParentID, depth) = "recurse"
    THEN 1 + checkCircularReferenceForUpdateCalls(d, userID, folderID,
                                                  d.folders[newParentID].parent_id, depth + 1)
    ELSE 1

\* any parent graph over a few folders of user 1, cycles included (the
\* concurrent updates of SpecMove commit such graphs); no row is its own parent
MaxWalkFolders == 3
WalkIDs == 1..MaxWalkFolders

InitWalk ==
    /\ folders \in [WalkIDs -> [user_id : {1}, name : {<<"a">>},
                                parent_id : {NULL} \cup WalkIDs]]
    /\ \A f \in WalkIDs : folders[f].parent_id # f
    /\ snippets = EmptyTable
    /\ tags = EmptyTable
    /\ snippet_tags = {}
    /\ nextFolderID = MaxWalkFolders + 1
    /\ nextSnippetID = 1
    /\ nextTagID = 1
    /\ last = NoRequest
    /\ inflight = EmptyTable
    /\ users = EmptyTable
    /\ nextUserID = 1
    /\ tokens = {}
    /\ now = 0

\* a walk is run and its result and number of calls are recorded
WalkDone(op, caller, id, err, calls) ==
    /\ last' = [op |-> op, caller |-> caller, id |-> id, fail |-> 0, status |-> 0,
                body |-> err, calls |-> calls]
    /\ UNCHANGED <<storeVars, inflight>>
    /\ UNCHANGED authVars

NextWalk ==
    \/ \E u \in Users, p \in WalkIDs :
           WalkDone("checkCircularReference", u, p,
                    checkCircularReference(DB, u, p, 0),
                    checkCircularReferenceCalls(DB, u, p, 0))
    \/ \E u \in Users, f \in WalkIDs, p \in WalkIDs :
           WalkDone("checkCircularReferenceForUpdate", u, f,
                    checkCircularReferenceForUpdate(DB, u, f, p, 0),
                    checkCircularReferenceForUpdateCalls(DB, u, f, p, 0))

SpecWalk == InitWalk /\ [][NextWalk]_vars

\* ================================================================ the claims

\* does the parent chain of f reach a NULL parent without a folder twice?
RECURSIVE ReachesRoot(_, _, _)
ReachesRoot(F, f, visited) ==
    IF F[f].parent_id = NULL THEN TRUE
    ELSE IF F[f].parent_id \notin DOMAIN F \/ F[f].parent_id \in visited THEN FALSE
    ELSE ReachesRoot(F, F[f].parent_id, visited \cup {F[f].parent_id})

\* the proper ancestors of f in a forest F
RECURSIVE AncestorsOf(_, _)
AncestorsOf(F, f) ==
    IF F[f].parent_id = NULL \/ F[f].parent_id \notin DOMAIN F THEN {}
    ELSE {F[f].parent_id} \cup AncestorsOf(F, F[f].parent_id)

\* C1: after any sequence of CreateFolder, UpdateFolder and DeleteFolder
\* requests the parent relation is a forest: from every folder the parent
\* chain reaches a NULL parent and visits no folder twice.
C1_Forest == \A f \in DOMAIN folders : ReachesRoot(folders, f, {f})

\* C1 witness: an UpdateFolder that would have put a folder under its own
\* grandchild was answered as a circular reference, and the chain of three
\* folders is still there.
C1_Witness ==
    /\ last.op = "UpdateFolder"
    /\ last.body = "Cannot update folder: circular reference detected"
    /\ \E f \in DOMAIN folders : Cardinality(AncestorsOf(folders, f)) = 2

\* C2: no two distinct folders share (owner, name, parent), NULL counting as
\* one parent value and names compared exactly.
C2_UniqueName ==
    \A f, g \in DOMAIN folders :
        (/\ f # g
         /\ folders[f].user_id = folders[g].user_id
         /\ folders[f].parent_id = folders[g].parent_id)
        => folders[f].name # folders[g].name

\* C2 witness: a duplicate was refused with 409 while the same owner holds
\* one name twice under different parents (root and nested) and two names
\* that differ only in case under one parent.
C2_Witness ==
    /\ last.op \in {"CreateFolder", "UpdateFolder"}
    /\ last.status = 409
    /\ \E f, g \in DOMAIN folders :
          /\ folders[f].user_id = folders[g].user_id
          /\ folders[f].name = folders[g].name
          /\ folders[f].parent_id = NULL
          /\ folders[g].parent_id # NULL
    /\ \E f, g \in DOMAIN folders :
          /\ folders[f].user_id = folders[g].user_id
          /\ folders[f].parent_id = folders[g].parent_id
          /\ folders[f].name # folders[g].name
          /\ ToLower(folders[f].name) = ToLower(folders[g].name)

\* C8: every folder with a parent has an existing parent of the same owner.
C8_ParentSameOwner ==
    \A f \in DOMAIN folders :
        folders[f].parent_id # NULL =>
            /\ folders[f].parent_id \in DOMAIN folders
            /\ folders[folders[f].parent_id].user_id = folders[f].user_id

\* C8 witness: both users own folders, one of them nested, and a request
\* naming a parent was refused as an invalid parent.
C8_Witness ==
    /\ last.op \in {"CreateFolder", "UpdateFolder"}
    /\ last.body = "Invalid parent folder"
    /\ \A u \in Users : \E f \in DOMAIN folders : folders[f].user_id = u
    /\ \E f \in DOMAIN folders : folders[f].parent_id # NULL

\* the snippets of folder f moved to the root
MovedToRoot(S, f) ==
    [s \in DOMAIN S |-> IF S[s].folder_id = f THEN [S[s] EXCEPT !.folder_id = NULL] ELSE S[s]]

\* the step is a DeleteFolder request of the folder's owner
OwnerDeletes ==
    /\ last'.op = "DeleteFolder"
    /\ last'.id \in DOMAIN folders
    /\ folders[last'.id].user_id = last'.caller

\* the folder of the DeleteFolder request is the parent of some folder row
HasChildFolder ==
    \E f \in DOMAIN folders : folders[f].parent_id = last'.id

\* C3: DeleteFolder on a folder that has a child folder changes no folder row
\* and no snippet row, and is answered 409 unless the store itself failed a
\* statement (the conflict is then a 500 or, from statement 4 on, still 409).
C3_DeleteWithChildren ==
    [][(OwnerDeletes /\ HasChildFolder) =>
          /\ folders' = folders
          /\ snippets' = snippets
          /\ last'.fail \notin {1, 2, 3} =>
                /\ last'.status = 409
                /\ last'.body = "Cannot delete folder: folder contains subfolders"]_vars

\* C3 witness: a delete of a folder with a child and a snippet in it was
\* answered 409.
C3_Witness ==
    /\ last.op = "DeleteFolder"
    /\ last.status = 409
    /\ last.id \in DOMAIN folders
    /\ \E f \in DOMAIN folders : folders[f].parent_id = last.id
    /\ \E s \in DOMAIN snippets : snippets[s].folder_id = last.id

\* C4: DeleteFolder on a folder without child folders is all or nothing: on
\* success the folder row is gone and exactly its snippets have folder_id
\* NULL; on an error every folder and snippet row is as before; and no
\* committed state has a snippet that points to a folder that is gone.
C4_DeleteAtomic ==
    [][/\ \A s \in DOMAIN snippets' :
             snippets'[s].folder_id = NULL \/ snippets'[s].folder_id \in DOMAIN folders'
       /\ (OwnerDeletes /\ ~HasChildFolder) =>
             IF last'.status = 204
             THEN /\ folders' = Remove(folders, last'.id)
                  /\ snippets' = MovedToRoot(snippets, last'.id)
             ELSE /\ folders' = folders
                  /\ snippets' = snippets]_vars

\* C4 witness: the store failed the DELETE statement, after the snippets of
\* the folder had been moved inside the transaction; the folder and its
\* snippet are as before.
C4_Witness ==
    /\ last.op = "DeleteFolder"
    /\ last.fail = 6
    /\ last.status = 500
    /\ last.id \in DOMAIN folders
    /\ folders[last.id].user_id = last.caller
    /\ \E s \in DOMAIN snippets : snippets[s].folder_id = last.id

\* C5 as claimed: no request of user X changes a folder, snippet or tag row
\* of another user.
C5_Isolation ==
    [][\A u \in Users : u # last'.caller =>
          /\ \A f \in DOMAIN folders : folders[f].user_id = u =>
                 f \in DOMAIN folders' /\ folders'[f] = folders[f]
          /\ \A s \in DOMAIN snippets : snippets[s].user_id = u =>
                 s \in DOMAIN snippets' /\ snippets'[s] = snippets[s]
          /\ \A t \in DOMAIN tags : tags[t].user_id = u =>
                 t \in DOMAIN tags' /\ tags'[t] = tags[t]]_vars

\* the ids the C6 comparison ranges over: folders (snippets) of another
\* user, and ids with no row
ForeignFolders(c) == {f \in DOMAIN folders : folders[f].user_id # c}
MissingFolders == (1..MaxFiledFolders + 1) \ DOMAIN folders
ForeignSnippets(c) == {s \in DOMAIN snippets : snippets[s].user_id # c}
MissingSnippets == (1..MaxSnippets + 1) \ DOMAIN snippets
OwnFolders(c) == {f \in DOMAIN folders : folders[f].user_id = c}
OwnSnippets(c) == {s \in DOMAIN snippets : snippets[s].user_id = c}

SameAnswer(r1, r2) == r1.status = r2.status /\ r1.body = r2.body

AFolderBody(p) == [id |-> 0, user_id |-> 0, name |-> <<"A">>, parent_id |-> p]
ASnippetBody(f) == [user_id |-> 0, folder_id |-> f, title |-> <<"t">>, tags |-> NoTags]

\* an id on the path: another user's row is answered as a missing row, 404
C6_PathIDs ==
    \A c \in Users :
        /\ \A i \in ForeignFolders(c), j \in MissingFolders :
              /\ SameAnswer(FolderHandlerGetFolder(DB, c, i), FolderHandlerGetFolder(DB, c, j))
              /\ SameAnswer(FolderHandlerUpdateFolder(DB, c, i, AFolderBody(NULL), 0),
                            FolderHandlerUpdateFolder(DB, c, j, AFolderBody(NULL), 0))
              /\ SameAnswer(FolderHandlerDeleteFolder(DB, c, i, 0),
                            FolderHandlerDeleteFolder(DB, c, j, 0))
              /\ FolderHandlerGetFolder(DB, c, i).status = 404
              /\ FolderHandlerUpdateFolder(DB, c, i, AFolderBody(NULL), 0).status = 404
              /\ FolderHandlerDeleteFolder(DB, c, i, 0).status = 404
        /\ \A i \in ForeignSnippets(c), j \in MissingSnippets :
              /\ SameAnswer(SnippetHandlerGetSnippet(DB, c, i),
                            SnippetHandlerGetSnippet(DB, c, j))
              /\ SameAnswer(SnippetHandlerUpdateSnippet(DB, c, i, ASnippetBody(NULL), 0),
                            SnippetHandlerUpdateSnippet(DB, c, j, ASnippetBody(NULL), 0))
              /\ SameAnswer(SnippetHandlerDeleteSnippet(DB, c, i, 0),
                            SnippetHandlerDeleteSnippet(DB, c, j, 0))
              /\ SnippetHandlerGetSnippet(DB, c, i).status = 404
              /\ SnippetHandlerUpdateSnippet(DB, c, i, ASnippetBody(NULL), 0).status = 404
              /\ SnippetHandlerDeleteSnippet(DB, c, i, 0).status = 404

\* a parent_id in the body: the two answers are the same
C6_ParentIDsSame ==
    \A c \in Users : \A i \in ForeignFolders(c), j \in MissingFolders :
        /\ SameAnswer(FolderHandlerCreateFolder(DB, c, AFolderBody(i), 0),
                      FolderHandlerCreateFolder(DB, c, AFolderBody(j), 0))
        /\ \A f \in OwnFolders(c) :
              SameAnswer(FolderHandlerUpdateFolder(DB, c, f, AFolderBody(i), 0),
                         FolderHandlerUpdateFolder(DB, c, f, AFolderBody(j), 0))

\* a parent_id in the body: the answer to another user's folder is 404
C6_ParentIDs404 ==
    \A c \in Users : \A i \in ForeignFolders(c) :
        /\ FolderHandlerCreateFolder(DB, c, AFolderBody(i), 0).status = 404
        /\ \A f \in OwnFolders(c) :
              FolderHandlerUpdateFolder(DB, c, f, AFolderBody(i), 0).status = 404

\* a folder_id in the body of a snippet request
C6_FolderIDs ==
    \A c \in Users : \A i \in ForeignFolders(c), j \in MissingFolders :
        /\ SameAnswer(SnippetHandlerCreateSnippet(DB, c, ASnippetBody(i), 0),
                      SnippetHandlerCreateSnippet(DB, c, ASnippetBody(j), 0))
        /\ SnippetHandlerCreateSnippet(DB, c, ASnippetBody(i), 0).status = 404
        /\ \A s \in OwnSnippets(c) :
              /\ SameAnswer(SnippetHandlerUpdateSnippet(DB, c, s, ASnippetBody(i), 0),
                            SnippetHandlerUpdateSnippet(DB, c, s, ASnippetBody(j), 0))
              /\ SnippetHandlerUpdateSnippet(DB, c, s, ASnippetBody(i), 0).status = 404

\* C6 as claimed: for every protected folder or snippet request, the answer
\* when a referenced id (path id, parent_id, folder_id) belongs to another
\* user equals, in status and body, the answer when no row has that id, and
\* it is a 404.
C6_Indistinguishable ==
    C6_PathIDs /\ C6_ParentIDsSame /\ C6_ParentIDs404 /\ C6_FolderIDs

\* C7 as claimed: every snippet with a folder_id refers to a folder of the
\* snippet's own owner.
C7_SnippetFolderSameOwner ==
    \A s \in DOMAIN snippets :
        snippets[s].folder_id # NULL =>
            /\ snippets[s].folder_id \in DOMAIN folders
            /\ folders[snippets[s].folder_id].user_id = snippets[s].user_id

\* C9: the row that a successful create or update of a folder or snippet
\* wrote is owned by the authenticated caller.
C9_OwnerIsCaller ==
    /\ (last.op \in {"CreateFolder", "UpdateFolder"} /\ last.status \in {200, 201}) =>
           /\ last.id \in DOMAIN folders
           /\ folders[last.id].user_id = last.caller
    /\ (last.op \in {"CreateSnippet", "UpdateSnippet"} /\ last.status \in {200, 201}) =>
           /\ last.id \in DOMAIN snippets
           /\ snippets[last.id].user_id = last.caller

\* C9 witness: a snippet was created into a folder while the other user owns
\* rows too, and the new row belongs to the caller.
C9_Witness ==
    /\ last.op = "CreateSnippet"
    /\ last.status = 201
    /\ snippets[last.id].user_id = last.caller
    /\ \E f \in DOMAIN folders : folders[f].user_id # last.caller

\* the claimed tag set of an input list: every name trimmed, and of the names
\* that are equal up to case only the first one
ExpectedTagNames(list) ==
    {TrimSpace(list[k]) : k \in {i \in 1..Len(list) :
        \A j \in 1..(i - 1) : ToLower(TrimSpace(list[j])) # ToLower(TrimSpace(list[i]))}}

LinksOf(d, s) == {l \in d.snippet_tags : l[1] = s}

LinkedTagNames(d, s) == {d.tags[l[2]].name : l \in LinksOf(d, s)}

\* C10: whenever UpdateSnippet with a tag list succeeds, the tags linked to
\* the snippet are the owner's tags whose names are exactly the trimmed,
\* case-insensitively de-duplicated list, one tag per name: no link of the
\* previous set survives unless its name is in the list.
C10_TagsReplaced ==
    \A c \in Users : \A s \in OwnSnippets(c) : \A b \in TagSnippetBodies :
        LET r == SnippetHandlerUpdateSnippet(DB, c, s, b, 0)
        IN (b.tags.present /\ r.status = 200) =>
               /\ LinkedTagNames(r.db, s) = ExpectedTagNames(b.tags.list)
               /\ Cardinality(LinksOf(r.db, s)) = Cardinality(ExpectedTagNames(b.tags.list))
               /\ \A l \in LinksOf(r.db, s) :
                     l[2] \in DOMAIN r.db.tags /\ r.db.tags[l[2]].user_id = c

\* C10 witness: an UpdateSnippet of the only snippet ever created succeeded
\* and left it linked to one tag, while another tag of its owner, which only
\* a link to this snippet can have created, is linked to it no more.
C10_Witness ==
    /\ last.op = "UpdateSnippet"
    /\ last.status = 200
    /\ last.id \in DOMAIN snippets
    /\ \E t \in DOMAIN tags : <<last.id, t>> \in snippet_tags
    /\ nextSnippetID = 2
    /\ \E t \in DOMAIN tags :
          /\ tags[t].user_id = snippets[last.id].user_id
          /\ <<last.id, t>> \notin snippet_tags

\* the request is one of the multi-statement writes and was answered with an
\* error
WriteFailed ==
    /\ last'.op \in {"CreateFolder", "UpdateFolder", "DeleteFolder",
                     "CreateSnippet", "UpdateSnippet"}
    /\ last'.status >= 400

\* C11: whenever a multi-statement write (CreateFolder, UpdateFolder,
\* DeleteFolder, CreateSnippet, UpdateSnippet) answers with an error, every
\* folder, snippet, tag and snippet-tag link is as before the request.
C11_RollbackOnError ==
    [][WriteFailed =>
          /\ folders' = folders
          /\ snippets' = snippets
          /\ tags' = tags
          /\ snippet_tags' = snippet_tags]_vars

\* the same, for every failure but the tag read that UpdateSnippet makes
\* after its commit
C11_RollbackBeforeCommit ==
    [][(WriteFailed /\ ~(last'.op = "UpdateSnippet" /\ last'.fail = 7)) =>
          /\ folders' = folders
          /\ snippets' = snippets
          /\ tags' = tags
          /\ snippet_tags' = snippet_tags]_vars

\* C12: from every folder the parent chain reaches a folder with a NULL
\* parent within 50 hops, i.e. no folder has more than 50 proper ancestors.
C12_DepthBound ==
    \A f \in DOMAIN folders : Cardinality(AncestorsOf(folders, f)) <= MaxDepth

\* C13: (owner, name, parent) is unique among the committed folders in every
\* state that interleaved CreateFolder transactions reach, the root (NULL
\* parent) included.
C13_UniqueUnderRace ==
    \A f, g \in DOMAIN folders :
        (f # g /\ folders[f].user_id = folders[g].user_id
               /\ folders[f].name = folders[g].name)
        => folders[f].parent_id # folders[g].parent_id

\* the same for nested folders only: under a non-NULL parent the constraint
\* of the store resolves the race
C13_NestedUniqueUnderRace ==
    \A f, g \in DOMAIN folders :
        (f # g /\ folders[f].user_id = folders[g].user_id
               /\ folders[f].name = folders[g].name
               /\ folders[f].parent_id # NULL)
        => folders[f].parent_id # folders[g].parent_id

\* C14: a CreateFolder that ends at its INSERT, i.e. whose insert failed on
\* the uniqueness constraint of the store, is answered with the same 409
\* conflict as a duplicate caught by the pre-check.
C14_RaceLoserConflict ==
    [][\A conn \in DOMAIN inflight :
          (inflight[conn].pc = "insert" /\ conn \notin DOMAIN inflight')
          => /\ last'.status = 409
             /\ last'.body = "Folder name already exists in this location"]_vars

\* the bodies of the folder requests of Spec
StructBodies == FolderBodies({0}, {0}, FolderNameInputs, BodyParentIDs)

\* parent p cannot be the parent of a folder of user c: it does not exist, it
\* belongs to another user, or it already has more than MaxDepth ancestors
BadParent(c, p) ==
    \/ p \notin DOMAIN folders
    \/ folders[p].user_id # c
    \/ Cardinality(AncestorsOf(folders, p)) > MaxDepth

\* parent p would close a cycle through folder f: it is f or a descendant of f
ClosesCycle(f, p) ==
    \/ p = f
    \/ p \in DOMAIN folders /\ f \in AncestorsOf(folders, p)

\* the answers to the folder requests in the current state
CreateAnswer(c, b) == FolderHandlerCreateFolder(DB, c, b, 0)
UpdateAnswer(c, f, b) == FolderHandlerUpdateFolder(DB, c, f, b, 0)

\* C15: every CreateFolder or UpdateFolder request with a parent that is
\* missing, foreign, the folder itself, a descendant of the folder or too
\* deep, if it is rejected, is answered 400.
C15_StructuralIs400 ==
    /\ \A c \in Users, b \in StructBodies :
          (b.parent_id > 0 /\ BadParent(c, b.parent_id) /\ CreateAnswer(c, b).status >= 300)
          => CreateAnswer(c, b).status = 400
    /\ \A c \in Users, f \in PathIDs, b \in StructBodies :
          (/\ f \in DOMAIN folders
           /\ folders[f].user_id = c
           /\ b.parent_id > 0
           /\ BadParent(c, b.parent_id) \/ ClosesCycle(f, b.parent_id)
           /\ UpdateAnswer(c, f, b).status >= 300)
          => UpdateAnswer(c, f, b).status = 400

\* the same without the requests that name the folder itself as its parent
C15_ExceptOwnParent ==
    /\ \A c \in Users, b \in StructBodies :
          (b.parent_id > 0 /\ BadParent(c, b.parent_id) /\ CreateAnswer(c, b).status >= 300)
          => CreateAnswer(c, b).status = 400
    /\ \A c \in Users, f \in PathIDs, b \in StructBodies :
          (/\ f \in DOMAIN folders
           /\ folders[f].user_id = c
           /\ b.parent_id > 0
           /\ b.parent_id # f
           /\ BadParent(c, b.parent_id) \/ ClosesCycle(f, b.parent_id)
           /\ UpdateAnswer(c, f, b).status >= 300)
          => UpdateAnswer(c, f, b).status = 400

\* the times of issue that leave the issued-at date of tk
IssueTimes(tk) == {t \in tk.iat..(tk.iat + 1) : t - (t % 2) = tk.iat}

\* C17: a token issued at time t carries the expiry t + 24 h (to the second
\* of its dates); ValidateToken accepts it at every time from t up to
\* t + 24 h and rejects it at every time later than t + 24 h + 5 min.
C17_TokenLifetime ==
    \A tk \in tokens : \A t \in IssueTimes(tk) :
        /\ tk.exp <= t + TokenTTL
        /\ t + TokenTTL < tk.exp + 2
        /\ (t <= now /\ now <= t + TokenTTL) => ValidateToken(tk, now) = NoErr
        /\ now > t + TokenTTL + Leeway => ValidateToken(tk, now) # NoErr

\* a request whose token is past the expiry and the leeway was answered 401
C17_Witness ==
    /\ last.op = "Me"
    /\ last.status = 401
    /\ last.body = InvalidTokenBody(ErrTokenExpiredMsg)
    /\ \E tk \in tokens : tk.user_id = last.caller /\ now > tk.iat + 1 + TokenTTL + Leeway

\* a request was admitted exactly 24 h after its token was issued
C17_AdmittedAtExpiry ==
    /\ last.op = "Me"
    /\ last.status = 200
    /\ \A tk \in tokens : tk.user_id = last.caller /\ now = tk.iat + 1 + TokenTTL

\* does the middleware let a request with token tk through?
Admitted(tk) == RequireAuth(UDB, tk, now).status = 200

\* C16 as stated: a token that is rejected after a username change or an
\* account deletion (the only ways a token of this server comes to be
\* rejected before it expires) is rejected on all later requests.
C16_StaleForever ==
    [][\A tk \in tokens : ~Admitted(tk) => ~Admitted(tk)']_vars

\* C16, amended: RequireAuth admits a request only if the token's user id
\* names an existing user whose current username equals the username in the
\* token; the tokens of a deleted account are rejected on all later
\* requests, and the tokens issued before a username change are rejected
\* while the current username differs from theirs.
C16_AdmitsCurrentNameOnly ==
    [][/\ \A tk \in tokens' :
              Admitted(tk)' => /\ tk.user_id \in DOMAIN users'
                               /\ users'[tk.user_id].username = tk.username
       /\ \A tk \in tokens :
              tk.user_id \notin DOMAIN users
                  => tk.user_id \notin DOMAIN users' /\ ~Admitted(tk)']_vars

\* an account was just deleted while a token issued to it is held, and a
\* token issued to another account before its username changed is held
C16_Witness ==
    /\ last.op = "DeleteCurrentUser"
    /\ last.status = 204
    /\ \E tk \in tokens : tk.user_id = last.id /\ ~Admitted(tk)
    /\ \E tk \in tokens : /\ tk.user_id \in DOMAIN users
                          /\ users[tk.user_id].username # tk.username
                          /\ ~Admitted(tk)

\* the policy as stated: at least 12 characters, and a character of each class
MeetsPolicy(p) ==
    /\ Len(p) >= MinPasswordLength
    /\ \E i \in 1..Len(p) : p[i] \in UpperLetters
    /\ \E i \in 1..Len(p) : p[i] \in LowerLetters
    /\ \E i \in 1..Len(p) : p[i] \in Digits
    /\ \E i \in 1..Len(p) : p[i] \in SpecialChars

\* registration accepts p exactly when change-password accepts p as the new
\* password, whatever different current password is given
C18_SameAcceptance ==
    \A p \in PasswordInputs :
        \A current \in ({GoodPassword, OtherPassword}
                           \cup {PasswordOf(users[u]) : u \in DOMAIN users}) \ {p} :
            (validateRegistration(Bob, p) = NoErr)
                <=> (validateChangePassword(current, p) = NoErr)

\* C18: registration accepts a password exactly when change-password accepts
\* it as the new password, and both reject every password of fewer than 12
\* characters or without an uppercase letter, a lowercase letter, a digit or
\* a special character: no account ever holds such a password.
C18_PasswordPolicy ==
    /\ C18_SameAcceptance
    /\ \A u \in DOMAIN users : MeetsPolicy(PasswordOf(users[u]))

\* a password of fewer than 12 characters was accepted by registration, and
\* one by change-password
C18_ShortRegistered ==
    /\ last.op = "Register"
    /\ last.status = 201
    /\ Len(PasswordOf(users[last.id])) < MinPasswordLength

C18_ShortChanged ==
    /\ last.op = "ChangePassword"
    /\ last.status = 200
    /\ Len(PasswordOf(users[last.id])) < MinPasswordLength

\* what the client sees of an answer
Visible(r) == [status |-> r.status, body |-> r.body, token |-> r.token]

\* C19: a login with an existing username and a wrong password and a login
\* with a username that does not exist get identical responses: status 401
\* and the same body.
C19_LoginIndistinguishable ==
    \A known \in {users[u].username : u \in DOMAIN users} :
        \A unknown \in (AuthUsernames \cup {Guy}) \ {users[u].username : u \in DOMAIN users} :
            \A p \in AuthPasswords, q \in AuthPasswords :
                LET wrong == AuthHandlerLogin(UDB, now, known, p)
                    nobody == AuthHandlerLogin(UDB, now, unknown, q)
                IN  wrong.status # 200
                        => /\ wrong.status = 401
                           /\ Visible(wrong) = Visible(nobody)

\* a login with the username of an account and a wrong password was answered
\* 401 while another username names no account
C19_Witness ==
    /\ last.op = "Login"
    /\ last.status = 401
    /\ last.id \in DOMAIN users
    /\ \E unknown \in AuthUsernames \cup {Guy} :
           \A u \in DOMAIN users : users[u].username # unknown

\* connection c is about to run its INSERT
AtInsert(c) ==
    /\ c \in DOMAIN inflight
    /\ inflight[c].op = "Register"
    /\ inflight[c].pc = "insert"

\* C20: when two registrations with the same username have both passed the
\* availability check, the first INSERT creates the user and is answered 201;
\* the second creates no row and is answered 409 "Username already exists",
\* not 500; no two accounts ever share a username.
C20_RegistrationRace ==
    [][/\ \A c \in Conns :
              (AtInsert(c) /\ c \notin DOMAIN inflight')
                  => IF UsernameCount(UDB, inflight[c].username, 0) > 0
                     THEN /\ users' = users
                          /\ last'.status = 409
                          /\ last'.body = "Username already exists"
                     ELSE /\ last'.status = 201
                          /\ Cardinality(DOMAIN users') = Cardinality(DOMAIN users) + 1
                          /\ users'[last'.id].username = inflight[c].username
       /\ \A u \in DOMAIN users', v \in DOMAIN users' :
              users'[u].username = users'[v].username => u = v]_vars

\* a registration that had passed the availability check lost the race: it
\* was answered 409 and the id it drew from the sequence names no account
C20_Witness ==
    /\ last.op = "Register"
    /\ last.status = 409
    /\ nextUserID > Cardinality(DOMAIN users) + 1

\* the tag list validateSnippet leaves in a request that carries the list l
NormalisedTags(l) ==
    validateSnippet([user_id |-> 1, folder_id |-> NULL, title |-> <<"t">>,
                     tags |-> [present |-> TRUE, list |-> l]]).snippet.tags.list

\* the positions of l whose trimmed name, letter case apart, occurs at no
\* earlier position
FirstPositions(l) ==
    {i \in 1..Len(l) :
        \A j \in 1..(i - 1) : ToLower(TrimSpace(l[j])) # ToLower(TrimSpace(l[i]))}

\* out is the trimmed names of l at its first positions, in the order of l
IsFirstOccurrences(out, l) ==
    /\ Len(out) = Cardinality(FirstPositions(l))
    /\ \A i \in FirstPositions(l) :
           out[Cardinality({j \in FirstPositions(l) : j <= i})] = TrimSpace(l[i])

\* C21: tag-list normalisation trims each name and keeps only the first
\* occurrence of each case-insensitive class, in input order, and is
\* idempotent; the tags linked to a stored snippet are trimmed and pairwise
\* different, letter case apart.
C21_TagNormalisation ==
    /\ \A l \in NormLists :
           /\ IsFirstOccurrences(NormalisedTags(l), l)
           /\ NormalisedTags(NormalisedTags(l)) = NormalisedTags(l)
    /\ NormalisedTags(<<<<"G", "o">>, <<"g", "o">>, <<"G", "O", " ">>>>) = <<<<"G", "o">>>>
    /\ \A l \in snippet_tags, m \in snippet_tags :
           (l[1] = m[1] /\ l[2] # m[2])
               => ToLower(tags[l[2]].name) # ToLower(tags[m[2]].name)
    /\ \A g \in DOMAIN tags : TrimSpace(tags[g].name) = tags[g].name

\* a snippet was just created with a single link, to a tag named "Go", as the
\* list "Go", "go", "GO " leaves it
C21_Witness ==
    /\ last.op = "CreateSnippet"
    /\ last.status = 201
    /\ NormalisedTags(<<<<"G", "o">>, <<"g", "o">>, <<"G", "O", " ">>>>) = <<<<"G", "o">>>>
    /\ \E l \in NormLists : Len(l) > 1 /\ NormalisedTags(l) = <<<<"G", "o">>>>
    /\ \A l \in snippet_tags : l[1] = last.id => tags[l[2]].name = <<"G", "o">>
    /\ \E l \in snippet_tags : l[1] = last.id

\* C22: every list response with total >= 0, an effective page >= 1 and a
\* limit in 1..100 carries total_pages = ceil(total / limit), has_next exactly
\* when page * limit < total (rows exist beyond the page), and has_prev exactly
\* when page > 1.  The envelope's arithmetic does not depend on the store, so
\* it is checked over every limit and a range of pages and totals where no
\* request has been made yet; every list response of GetFolders and GetSnippets
\* is checked as it is given.
MaxTotal == 210
MaxPage == 4

IsCeil(n, total, limit) == n * limit >= total /\ (n - 1) * limit < total

EnvelopeRight(p) ==
    /\ IsCeil(p.total_pages, p.total, p.limit)
    /\ p.has_next <=> p.page * p.limit < p.total
    /\ p.has_prev <=> p.page > 1

C22_Pagination ==
    /\ last = NoRequest =>
           \A total \in 0..MaxTotal, page \in 1..MaxPage, limit \in 1..MaxLimit :
               EnvelopeRight(Pagination(page, limit, total))
    /\ last.op \in {"GetFolders", "GetSnippets"} /\ last.status = 200 =>
           /\ last.pagination.page >= 1
           /\ last.pagination.limit \in 1..MaxLimit
           /\ last.pagination.total >= 0
           /\ EnvelopeRight(last.pagination)
           /\ last.pagination.has_next <=>
                  last.rows = last.pagination.limit
                  /\ RowsOfPage(last.pagination.total, last.pagination.limit,
                                last.pagination.page * last.pagination.limit) > 0
           /\ last.op = "GetSnippets" =>
                  last.pagination.total = Cardinality({s \in DOMAIN snippets :
                                              snippets[s].user_id = last.caller})
           /\ last.op = "GetFolders" =>
                  last.pagination.total <= Cardinality({f \in DOMAIN folders :
                                               folders[f].user_id = last.caller})

\* the middle page of three folders listed one per page
C22_Witness ==
    /\ last.op = "GetFolders"
    /\ last.status = 200
    /\ last.pagination = [page |-> 2, limit |-> 1, total |-> 3, total_pages |-> 3,
                          has_next |-> TRUE, has_prev |-> TRUE]
    /\ last.rows = 1

\* C23: Login does the same work on both failure paths: whether the username
\* is unknown or the password is wrong, a refused login (401) has run a
\* password-hash comparison followed by the artificial delay.
LoginRefused(username, password) ==
    AuthHandlerLogin(UDB, now, username, password).status = 401

C23_SameWorkOnFailure ==
    \A u \in RenameUsernames, p \in AuthPasswords :
        LoginRefused(u, p) =>
            \A v \in RenameUsernames, q \in AuthPasswords :
                LoginRefused(v, q) => LoginWork(UDB, v, q) = LoginWork(UDB, u, p)

\* the refusals that do take the same path: every wrong password for a
\* registered username runs the comparison and then the delay, and every
\* refusal ends with the delay
C23_WrongPasswordWork ==
    \A u \in RenameUsernames, p \in AuthPasswords :
        LoginRefused(u, p) =>
            /\ LoginWork(UDB, u, p)[Len(LoginWork(UDB, u, p))] = "Sleep"
            /\ GetUserByUsername(UDB, u).err = NoErr =>
                   LoginWork(UDB, u, p) =
                       <<"GetUserByUsername", "CompareHashAndPassword", "Sleep">>

\* a login with an unknown username was refused while an account exists whose
\* wrong-password refusal runs the comparison
C23_UnknownUserRefused ==
    /\ last.op = "Login"
    /\ last.status = 401
    /\ last.id = 0
    /\ \E u \in RenameUsernames, p \in AuthPasswords :
           /\ LoginRefused(u, p)
           /\ GetUserByUsername(UDB, u).err = NoErr

\* C24: under every interleaving of two UpdateFolder transactions that
\* re-parent different folders of one user, the committed parent graph stays
\* acyclic: the parent chain of every committed folder ends at a root, so two
\* updates that would close a cycle cannot both commit.
C24_AcyclicUnderRace ==
    \A u \in Users : \A f \in DOMAIN folders :
        folders[f].user_id = u => ReachesRoot(folders, f, {f})

\* C25: under every interleaving of DeleteFolder(P) with a CreateFolder or
\* UpdateFolder that makes some folder a child of P, the commit of DeleteFolder
\* removes no folder that has a child folder at that moment, and it leaves the
\* parent of every other committed folder as it was (no parent is silently
\* reset to root).
C25_DeleteUnderRace ==
    [][\A conn \in DOMAIN inflight :
          (/\ inflight[conn].op = "DeleteFolder"
           /\ inflight[conn].pc = "commit"
           /\ conn \notin DOMAIN inflight')
          => /\ ChildCount(DB, inflight[conn].id) = 0
             /\ \A f \in DOMAIN folders' :
                    folders'[f].parent_id = folders[f].parent_id]_vars

\* what the locks do give: while a DeleteFolder holds its uncommitted DELETE,
\* no other transaction commits a new child of the folder
C25_NoChildAfterDelete ==
    [][\A conn \in DOMAIN inflight :
          (/\ inflight[conn].op = "DeleteFolder"
           /\ inflight[conn].pc = "commit"
           /\ conn \in DOMAIN inflight')
          => ChildCount(DB, inflight[conn].id)
                 >= Cardinality({f \in DOMAIN folders' :
                                    folders'[f].parent_id = inflight[conn].id})]_vars

\* C26: insertSnippetTags is a race-safe get-or-create: when two snippet
\* create transactions of one user interleave and both name a tag that does
\* not exist yet, every transaction ends with 201, none fails on the tag
\* uniqueness constraint, and the snippet it committed is linked to the single
\* (owner, name) row of every tag it named.
C26_TagGetOrCreate ==
    [][\A conn \in DOMAIN inflight :
          (inflight[conn].op = "CreateSnippet" /\ conn \notin DOMAIN inflight')
          => /\ last'.status = 201
             /\ \A i \in 1..Len(inflight[conn].snippet.tags.list) :
                    \E t \in DOMAIN tags' :
                        /\ tags'[t] = [user_id |-> inflight[conn].caller,
                                       name |-> inflight[conn].snippet.tags.list[i]]
                        /\ <<inflight[conn].id, t>> \in snippet_tags'
                        /\ \A t2 \in DOMAIN tags' : tags'[t2] = tags'[t] => t2 = t]_vars

\* what the constraint does keep: one row per (owner, name), and every link
\* of a committed snippet points to a committed tag of the snippet's owner
C26_TagRowsUnique ==
    /\ \A t, t2 \in DOMAIN tags : tags[t] = tags[t2] => t = t2
    /\ \A l \in snippet_tags :
           /\ l[1] \in DOMAIN snippets
           /\ l[2] \in DOMAIN tags
           /\ tags[l[2]].user_id = snippets[l[1]].user_id

\* a create that found no row for its tag was answered 500 while the other
\* transaction's snippet carries the tag
C26_LoserRefused ==
    /\ last.op = "CreateSnippet"
    /\ last.status = 500
    /\ \E l \in snippet_tags : tags[l[2]].user_id = last.caller

\* C27: an update of a folder whose body supplies only a new name (no
\* parent_id, as the file tree's rename sends) changes that folder's name and
\* updated_at only: where it is answered 200, the folder's parent_id and owner
\* and every other folder and every snippet are as before.
RenameBody(name) == [id |-> 0, user_id |-> 0, name |-> name, parent_id |-> NULL]

Renamed(c, f, name) == FolderHandlerUpdateFolder(DB, c, f, RenameBody(name), 0)

C27_RenameOnly ==
    \A c \in Users, f \in PathIDs, name \in FolderNameInputs :
        Renamed(c, f, name).status = 200 =>
            /\ Renamed(c, f, name).db.folders[f].parent_id = folders[f].parent_id
            /\ Renamed(c, f, name).db.folders[f].user_id = folders[f].user_id
            /\ \A g \in DOMAIN folders \ {f} :
                   /\ g \in DOMAIN Renamed(c, f, name).db.folders
                   /\ Renamed(c, f, name).db.folders[g] = folders[g]
            /\ Renamed(c, f, name).db.snippets = snippets

\* the part of the frame that holds: the rename sets the trimmed name, keeps
\* the owner, and leaves every other folder and every snippet alone
C27_RenameKeepsOthers ==
    \A c \in Users, f \in PathIDs, name \in FolderNameInputs :
        Renamed(c, f, name).status = 200 =>
            /\ Renamed(c, f, name).db.folders[f].name = TrimSpace(name)
            /\ Renamed(c, f, name).db.folders[f].user_id = folders[f].user_id
            /\ DOMAIN Renamed(c, f, name).db.folders = DOMAIN folders
            /\ \A g \in DOMAIN folders \ {f} : Renamed(c, f, name).db.folders[g] = folders[g]
            /\ Renamed(c, f, name).db.snippets = snippets

\* C28: a successful UpdateSnippet whose request omits the tags field leaves
\* the snippet's tag links (and every tag and link of the store) exactly as
\* they were; the links change only for a request that supplies a tag list,
\* and an empty list removes them all.
C28_OmittedTagsKeepLinks ==
    \A c \in Users : \A s \in OwnSnippets(c) :
           \A b \in TaggedBodies \cup UntaggedBodies :
               LET r == SnippetHandlerUpdateSnippet(DB, c, s, b, 0)
               IN r.status = 200 =>
                      /\ ~b.tags.present =>
                             /\ r.db.snippet_tags = snippet_tags
                             /\ r.db.tags = tags
                      /\ LinksOf(r.db, s) # LinksOf(DB, s) => b.tags.present
                      /\ (b.tags.present /\ b.tags.list = <<>>) => LinksOf(r.db, s) = {}

\* C28 witness: the last request was a successful update without a tags field
\* (it set the title "u") of a snippet that still carries both of its links
C28_Witness ==
    /\ last.op = "UpdateSnippet"
    /\ last.status = 200
    /\ last.id \in DOMAIN snippets
    /\ snippets[last.id].title = <<"u">>
    /\ Cardinality(LinksOf(DB, last.id)) = 2

\* C29: in every reachable state, an UpdateFolder whose parent_id equals the
\* folder's current parent (so the walk is skipped) is accepted or rejected
\* exactly as the same update with the cycle-and-depth walk always executed,
\* and so ends in the same state: the parent validation is the only place
\* where the two differ, and it gives the same verdict.
SameParentBody(f) ==
    [id |-> 0, user_id |-> 1, name |-> folders[f].name, parent_id |-> folders[f].parent_id]

SkipAgreesWithWalk(f) ==
    (UpdateFolderParentErr(DB, f, SameParentBody(f), 0) = NoErr)
        <=> (UpdateFolderParentErrAlwaysWalk(DB, f, SameParentBody(f)) = NoErr)

C29_SkipEquivalent ==
    \A f \in DOMAIN folders :
        (folders[f].user_id = 1 /\ folders[f].parent_id # NULL) => SkipAgreesWithWalk(f)

\* the equivalence where the depth bound of C12 holds: if no folder has more
\* than 50 proper ancestors, the skipped walk would have passed
C29_SkipEquivalentWithinBound ==
    (\A g \in DOMAIN folders : Cardinality(AncestorsOf(folders, g)) <= MaxDepth)
    => \A f \in DOMAIN folders :
           (folders[f].user_id = 1 /\ folders[f].parent_id # NULL) => SkipAgreesWithWalk(f)

\* an update that named the unchanged parent was accepted although the walk
\* from that parent exceeds the depth limit
C29_SkippedWalkWouldFail ==
    /\ last.op = "UpdateFolder"
    /\ last.status = 200
    /\ last.id \in DOMAIN folders
    /\ folders[last.id].parent_id # NULL
    /\ UpdateFolderParentErr(DB, last.id, SameParentBody(last.id), 0) = NoErr
    /\ UpdateFolderParentErrAlwaysWalk(DB, last.id, SameParentBody(last.id)) = ErrDepthMsg

\* C30: checkCircularReference and checkCircularReferenceForUpdate terminate
\* on every folder graph, also on one with a cycle that does not pass through
\* the folder being updated, after at most 52 calls, and return success or
\* one of the errors circular reference / maximum folder depth exceeded.
MaxWalkCalls == MaxDepth + 2

WalkErrors ==
    {NoErr, "maximum folder depth exceeded", "circular reference detected",
     "folder cannot be its own parent"}

C30_WalksTerminate ==
    /\ \A u \in Users, p \in WalkIDs :
           /\ checkCircularReferenceCalls(DB, u, p, 0) <= MaxWalkCalls
           /\ checkCircularReference(DB, u, p, 0)
                  \in {NoErr, "maximum folder depth exceeded"}
    /\ \A u \in Users, f \in WalkIDs, p \in WalkIDs :
           /\ checkCircularReferenceForUpdateCalls(DB, u, f, p, 0) <= MaxWalkCalls
           /\ checkCircularReferenceForUpdate(DB, u, f, p, 0) \in WalkErrors
    /\ last.op \in {"checkCircularReference", "checkCircularReferenceForUpdate"} =>
           /\ last.calls \in 1..MaxWalkCalls
           /\ last.body \in WalkErrors
           /\ last.calls = MaxWalkCalls <=> last.body = "maximum folder depth exceeded"

\* C30 witness: the update walk for folder 1 ran into a cycle between the
\* two other folders and ended with the depth error at its 52nd call
C30_Witness ==
    /\ last.op = "checkCircularReferenceForUpdate"
    /\ last.id = 1
    /\ last.calls = MaxWalkCalls
    /\ last.body = "maximum folder depth exceeded"
    /\ folders[2].parent_id = 3
    /\ folders[3].parent_id = 2

====
